---- MODULE Spec2Model ----
(***************************************************************************)
(* State-machine model of the dqlite in-memory VFS (the volatile,          *)
(* page-addressed storage backend): the registry of file contents, the     *)
(* open file handles, the shared-memory region table and lock table of a   *)
(* database file, page I/O, and the bulk export/import entry points.       *)
(* Further sections model the generic ID registry, the request slots of    *)
(* the gateway with its WAL hook, and the replay of a raft log store.      *)
(*                                                                         *)
(* Conventions.                                                            *)
(*  - A C buffer is a string of bytes (run-length encoded, see below).     *)
(*  - A vfsContent object is identified by its position in v.contents.     *)
(*    When vfsDeleteContent shifts the array the references to the objects *)
(*    behind the deleted one are renumbered with it (DANGLING for a        *)
(*    reference to the deleted object itself).                             *)
(*  - assert() is compiled in or out: ndebug is the build.  A failed       *)
(*    assert in a debug build stops the process (fault = "assert"); in a   *)
(*    release build execution continues with the statements that follow.   *)
(*    Where those statements have undefined behaviour fault is "ub".       *)
(*    A call that stops the process leaves vfs as it was before the call.  *)
(*  - Allocation failures are modelled in vfsOpen only; every other        *)
(*    allocation is taken to succeed.                                      *)
(*  - The temp-file passthrough (NULL filename) is not modelled.           *)
(***************************************************************************)
EXTENDS Integers, Sequences, FiniteSets, TLC

(***************************************************************************)
(* Bounds of the exploration.                                              *)
(***************************************************************************)
MaxHandles == 2
MaxRegHandles == 2
MaxShared == 1
MaxSlot == 1
MaxRegions == 1
MaxItems == 3
MaxStmts == 2
MaxBatches == 2
MaxTag == 4
MaxFlushing == 2
MaxWalPages == 2
MaxLogIndex == 3

(***************************************************************************)
(* Program constants.  SQLITE_SHM_NLOCK comes from the SQL engine's        *)
(* header, which is outside the repository; the specification gives 16.    *)
(* Only maybe_checkpoint visits every slot; the callers of SpecShm lock    *)
(* the slots up to MaxSlot.                                                *)
(***************************************************************************)
SQLITE_SHM_NLOCK == 16
FORMAT__WAL_HDR_SIZE == 32
FORMAT__WAL_FRAME_HDR_SIZE == 24
FORMAT__DB_HDR_SIZE == 100
FORMAT__PAGE_SIZE_MIN == 512
FORMAT__PAGE_SIZE_MAX == 65536

NULL == 0
DANGLING == -1

VARIABLES
    vfs,      \* struct vfs: [contents, error]
    handles,  \* the sqlite3_file objects of the callers: slot -> struct vfsFile
    ret,      \* the last call: its name, arguments, status code and output
    ndebug,   \* TRUE when assert() is compiled out
    fault,    \* "none", or why the process stopped
    registry, \* struct test_registry: [buf, len, cap]
    items,    \* the struct testItem objects: address -> id (-1 when not allocated)
    held,     \* the locks each caller took through its handle and has not released
    gateway,  \* struct gateway: [ctxs, db]
    flushing  \* per request slot, the requests whose response was handed to
              \* xFlush and is not yet reported by gateway__flushed

\* The state outside the file system.
others == <<registry, items, held, gateway, flushing>>

vars == <<vfs, handles, ret, ndebug, fault, registry, items, held, gateway, flushing>>

Slots == 0 .. (SQLITE_SHM_NLOCK - 1)
Handles == 1 .. (IF MaxHandles > MaxRegHandles THEN MaxHandles ELSE MaxRegHandles)
ShmHandles == 1 .. MaxHandles
RegHandles == 1 .. MaxRegHandles
NoFile == [content |-> NULL, flags |-> {}]

(***************************************************************************)
(* Byte buffers.  A buffer is a string of bytes, held run-length encoded:  *)
(* a sequence of runs [v |-> byte, n |-> length] with n > 0 and adjacent   *)
(* runs of different bytes, so that equal strings are equal values.        *)
(***************************************************************************)
Run(v, n) == IF n <= 0 THEN <<>> ELSE <<[v |-> v, n |-> n]>>

\* memset(buf, 0, n) on a fresh buffer
Zeros(n) == Run(0, n)

RECURSIVE BLen(_)
BLen(b) == IF b = <<>> THEN 0 ELSE Head(b).n + BLen(Tail(b))

\* Concatenation.
BCat(a, b) ==
    IF a = <<>> THEN b
    ELSE IF b = <<>> THEN a
    ELSE IF a[Len(a)].v = b[1].v
    THEN SubSeq(a, 1, Len(a) - 1) \o <<[v |-> b[1].v, n |-> a[Len(a)].n + b[1].n]>> \o Tail(b)
    ELSE a \o b

\* The first n bytes of b (all of b when it is shorter).
RECURSIVE BTake(_, _)
BTake(b, n) ==
    IF n <= 0 \/ b = <<>> THEN <<>>
    ELSE IF Head(b).n >= n THEN <<[v |-> Head(b).v, n |-> n]>>
    ELSE <<Head(b)>> \o BTake(Tail(b), n - Head(b).n)

\* b without its first n bytes.
RECURSIVE BDrop(_, _)
BDrop(b, n) ==
    IF n <= 0 \/ b = <<>> THEN b
    ELSE IF Head(b).n > n THEN <<[v |-> Head(b).v, n |-> Head(b).n - n]>> \o Tail(b)
    ELSE BDrop(Tail(b), n - Head(b).n)

\* buf[offset]
BByte(b, offset) == BTake(BDrop(b, offset), 1)[1].v

\* The buffer holding the given bytes.
RECURSIVE BOf(_)
BOf(bytes) == IF bytes = <<>> THEN <<>> ELSE BCat(Run(Head(bytes), 1), BOf(Tail(bytes)))

(***************************************************************************)
(* struct vfsShm.                                                          *)
(***************************************************************************)
vfsShmInit ==
    [regions |-> <<>>,
     shared |-> [i \in Slots |-> 0],
     exclusive |-> [i \in Slots |-> 0]]

regions_len(s) == Len(s.regions)

\* A region slot the code never stored a pointer in.
UninitRegion == [size |-> -1]

\* vfsShmClose frees every region; freeing an unset pointer is undefined.
vfsShmCloseFault(s) ==
    IF \E i \in 1 .. regions_len(s) : s.regions[i] = UninitRegion
    THEN "ub" ELSE "none"

\* Variant: the regions are freed but the lock counters are not reset.
vfsShmClose_NoReset(s) == [s EXCEPT !.regions = <<>>]

vfsShmClose(s) == vfsShmInit

(***************************************************************************)
(* struct vfsContent.                                                      *)
(***************************************************************************)
vfsContentCreate(name, type) ==
    [filename |-> name,
     pages |-> <<>>,
     page_size |-> 0,
     refcount |-> 0,
     type |-> type,
     shm |-> vfsShmInit,
     wal |-> NULL,
     hdr |-> IF type = "VFS__WAL" THEN Zeros(FORMAT__WAL_HDR_SIZE) ELSE <<>>]

n_pages(c) == Len(c.pages)
n_contents(v) == Len(v.contents)

Deref(v, p) == v.contents[p]

\* v with the object p replaced by c.
Store(v, p, c) == [v EXCEPT !.contents[p] = c]

(***************************************************************************)
(* vfsContentLookup: index of the first content with that filename, or 0.  *)
(***************************************************************************)
\* Variant: the loop stops one entry short of the end of the array.
vfsContentLookup_SkipLast(v, filename) ==
    IF \E i \in 1 .. (n_contents(v) - 1) : v.contents[i].filename = filename
    THEN CHOOSE i \in 1 .. (n_contents(v) - 1) :
            /\ v.contents[i].filename = filename
            /\ \A j \in 1 .. (i - 1) : v.contents[j].filename # filename
    ELSE 0

vfsContentLookup(v, filename) ==
    IF \E i \in 1 .. n_contents(v) : v.contents[i].filename = filename
    THEN CHOOSE i \in 1 .. n_contents(v) :
            /\ v.contents[i].filename = filename
            /\ \A j \in 1 .. (i - 1) : v.contents[j].filename # filename
    ELSE 0

\* The database name a WAL name stands for: the name minus strlen("-wal").
MainFilename(wal_filename) ==
    SubSeq(wal_filename, 1, Len(wal_filename) - Len("-wal"))

\* Variant: a WAL name is paired with itself (the suffix is not removed).
vfsDatabaseContentLookup_NoStrip(v, wal_filename) ==
    LET i == vfsContentLookup(v, wal_filename) IN
    IF i = 0
    THEN [rc |-> "SQLITE_CORRUPT", out |-> 0]
    ELSE [rc |-> "SQLITE_OK", out |-> i]

vfsDatabaseContentLookup(v, wal_filename) ==
    LET i == vfsContentLookup(v, MainFilename(wal_filename)) IN
    IF i = 0
    THEN [rc |-> "SQLITE_CORRUPT", out |-> 0]
    ELSE [rc |-> "SQLITE_OK", out |-> i]

(***************************************************************************)
(* vfsDeleteContent: remove the first content with that filename, unless   *)
(* it is referenced.                                                       *)
(***************************************************************************)
RemoveAt(seq, i) == SubSeq(seq, 1, i - 1) \o SubSeq(seq, i + 1, Len(seq))

\* A reference p once the object i has left the array.
Renumber(p, i) ==
    IF i = 0 \/ p = NULL \/ p = DANGLING THEN p
    ELSE IF p = i THEN DANGLING
    ELSE IF p > i THEN p - 1
    ELSE p

\* vfsContentDestroy of the object i, and the shift of the ones behind it.
vfsRemoveContent(v, i) ==
    LET rest == RemoveAt(v.contents, i) IN
    [v EXCEPT !.contents = [k \in 1 .. Len(rest) |->
                               [rest[k] EXCEPT !.wal = Renumber(@, i)]]]

\* freed is the object destroyed (0 when none).
\* Variant: the file is removed whatever its refcount.
vfsDeleteContent_Force(v, filename) ==
    LET i == vfsContentLookup(v, filename) IN
    IF i = 0
    THEN [v |-> [v EXCEPT !.error = "ENOENT"], rc |-> "SQLITE_IOERR_DELETE_NOENT",
          freed |-> 0]
    ELSE [v |-> vfsRemoveContent(v, i), rc |-> "SQLITE_OK", freed |-> i]

vfsDeleteContent(v, filename) ==
    LET i == vfsContentLookup(v, filename) IN
    IF i = 0
    THEN [v |-> [v EXCEPT !.error = "ENOENT"], rc |-> "SQLITE_IOERR_DELETE_NOENT",
          freed |-> 0]
    ELSE IF v.contents[i].refcount > 0
    THEN [v |-> [v EXCEPT !.error = "EBUSY"], rc |-> "SQLITE_IOERR_DELETE", freed |-> 0]
    ELSE [v |-> vfsRemoveContent(v, i), rc |-> "SQLITE_OK", freed |-> i]

(***************************************************************************)
(* vfsOpen.  oom names the allocation that fails, if any: "contents" (the  *)
(* realloc of the contents array) or "content" (vfsContentCreate).         *)
(* The result carries the content the new handle points to (NULL on        *)
(* failure, when pMethods stays 0 and the handle is never used).           *)
(***************************************************************************)
vfsOpenType(flags) ==
    IF "SQLITE_OPEN_MAIN_DB" \in flags THEN "VFS__DATABASE"
    ELSE IF "SQLITE_OPEN_MAIN_JOURNAL" \in flags THEN "VFS__JOURNAL"
    ELSE IF "SQLITE_OPEN_WAL" \in flags THEN "VFS__WAL"
    ELSE "none"

vfsOpenFail(v, e, rc) ==
    [v |-> [v EXCEPT !.error = e], rc |-> rc, content |-> NULL]

vfsOpenOk(v, p) ==
    [v |-> [v EXCEPT !.contents[p].refcount = @ + 1],
     rc |-> "SQLITE_OK", content |-> p]

\* The creation of the content, when the name is not registered.
vfsOpenCreate(v, filename, flags, oom) ==
    LET create == "SQLITE_OPEN_CREATE" \in flags
        type == vfsOpenType(flags)
        p == n_contents(v) + 1
        db == vfsDatabaseContentLookup(v, filename)
    IN
    IF ~create THEN vfsOpenFail(v, "ENOENT", "SQLITE_CANTOPEN")
    ELSE IF oom = "contents" THEN vfsOpenFail(v, "ENOMEM", "SQLITE_CANTOPEN")
    ELSE IF type = "none" THEN vfsOpenFail(v, "ENOENT", "SQLITE_CANTOPEN")
    ELSE IF oom = "content" THEN vfsOpenFail(v, "ENOMEM", "SQLITE_NOMEM")
    ELSE IF type = "VFS__WAL" /\ db.rc # "SQLITE_OK" THEN vfsOpenFail(v, "ENOMEM", db.rc)
    ELSE LET w1 == IF type = "VFS__WAL"
                   THEN [v EXCEPT !.contents[db.out].wal = p]
                   ELSE v
             w2 == [w1 EXCEPT !.contents = Append(@, vfsContentCreate(filename, type))]
         IN vfsOpenOk(w2, p)

\* Variant: the exclusive flag is not looked at.
vfsOpenResult_NoExclusive(v, filename, flags, oom) ==
    LET i == vfsContentLookup(v, filename) IN
    IF i # 0 THEN vfsOpenOk(v, i)
    ELSE vfsOpenCreate(v, filename, flags, oom)

vfsOpenResult(v, filename, flags, oom) ==
    LET i == vfsContentLookup(v, filename)
        exists == i # 0
        exclusive == "SQLITE_OPEN_EXCLUSIVE" \in flags
        create == "SQLITE_OPEN_CREATE" \in flags
    IN
    IF exists /\ exclusive /\ create THEN vfsOpenFail(v, "EEXIST", "SQLITE_CANTOPEN")
    ELSE IF exists THEN vfsOpenOk(v, i)
    ELSE vfsOpenCreate(v, filename, flags, oom)

(***************************************************************************)
(* vfsFileClose on the handle f = [content, flags].                        *)
(***************************************************************************)
\* Variant: the content is deleted at every close, whatever the flags.
vfsFileCloseResult_AlwaysDelete(v, f) ==
    LET c == Deref(v, f.content)
        c1 == [c EXCEPT !.refcount = @ - 1]
        last == c1.refcount = 0 /\ c.type = "VFS__DATABASE"
        c2 == IF last THEN [c1 EXCEPT !.shm = vfsShmClose(c1.shm)] ELSE c1
        d == vfsDeleteContent(Store(v, f.content, c2), c.filename)
    IN [v |-> d.v, rc |-> d.rc, fault |-> "none", freed |-> d.freed]

vfsFileCloseResult(v, f) ==
    LET c == Deref(v, f.content)
        c1 == [c EXCEPT !.refcount = @ - 1]
        last == c1.refcount = 0 /\ c.type = "VFS__DATABASE"
        c2 == IF last THEN [c1 EXCEPT !.shm = vfsShmClose(c1.shm)] ELSE c1
        v1 == Store(v, f.content, c2)
        d == IF "SQLITE_OPEN_DELETEONCLOSE" \in f.flags
             THEN vfsDeleteContent(v1, c.filename)
             ELSE [v |-> v1, rc |-> "SQLITE_OK", freed |-> 0]
    IN
    IF c.refcount = 0 /\ ~ndebug
    THEN [v |-> v, rc |-> "SQLITE_OK", fault |-> "assert", freed |-> 0]
    ELSE IF last /\ vfsShmCloseFault(c1.shm) # "none"
    THEN [v |-> v, rc |-> "SQLITE_OK", fault |-> vfsShmCloseFault(c1.shm), freed |-> 0]
    ELSE [v |-> d.v, rc |-> d.rc, fault |-> "none", freed |-> d.freed]

(***************************************************************************)
(* vfsFileShmMap on the shared memory s of the handle's content.           *)
(* out is the region returned (NULL when none).                            *)
(***************************************************************************)
\* Variant: a region that is not allocated is allocated whether or not the
\* caller asked to extend.
vfsFileShmMapResult_AlwaysExtend(s, region_index, region_size, extend) ==
    IF region_index < regions_len(s)
    THEN [shm |-> s, rc |-> "SQLITE_OK", fault |-> "none",
          out |-> s.regions[region_index + 1]]
    ELSE [shm |-> [s EXCEPT !.regions = Append(@, [size |-> region_size])],
          rc |-> "SQLITE_OK", fault |-> "none", out |-> [size |-> region_size]]

vfsFileShmMapResult(s, region_index, region_size, extend) ==
    IF region_index < regions_len(s)
    THEN [shm |-> s, rc |-> "SQLITE_OK", fault |-> "none",
          out |-> s.regions[region_index + 1]]
    ELSE IF ~extend
    THEN [shm |-> s, rc |-> "SQLITE_OK", fault |-> "none", out |-> NULL]
    ELSE IF region_index # regions_len(s) /\ ~ndebug
    THEN [shm |-> s, rc |-> "SQLITE_OK", fault |-> "assert", out |-> NULL]
    ELSE IF region_index # regions_len(s)
    \* the array is resized to region_index + 1 pointers, the new region is
    \* stored at region_index and regions_len grows by one: the slot at the
    \* old regions_len is counted but was never set.
    THEN [shm |-> [s EXCEPT !.regions = Append(@, UninitRegion)],
          rc |-> "SQLITE_OK", fault |-> "none", out |-> [size |-> region_size]]
    ELSE [shm |-> [s EXCEPT !.regions = Append(@, [size |-> region_size])],
          rc |-> "SQLITE_OK", fault |-> "none", out |-> [size |-> region_size]]

(***************************************************************************)
(* vfsFileShmLock on the shared memory s.  flags is the set of the          *)
(* SQLITE_SHM_* bits passed.                                               *)
(***************************************************************************)
LockRange(ofst, n) == ofst .. (ofst + n - 1)

\* Variant: the count is decreased whether or not it is positive.
vfsShmUnlock_Always(s, ofst, n, flags) ==
    LET sh == "SQLITE_SHM_SHARED" \in flags
        these_locks == IF sh THEN s.shared ELSE s.exclusive
        other_locks == IF sh THEN s.exclusive ELSE s.shared
        released == [i \in Slots |->
                       IF i \in LockRange(ofst, n)
                       THEN these_locks[i] - 1
                       ELSE these_locks[i]]
    IN
    IF (\E i \in LockRange(ofst, n) : other_locks[i] # 0) /\ ~ndebug
    THEN [shm |-> s, rc |-> "SQLITE_OK", fault |-> "assert"]
    ELSE [shm |-> IF sh THEN [s EXCEPT !.shared = released]
                        ELSE [s EXCEPT !.exclusive = released],
          rc |-> "SQLITE_OK", fault |-> "none"]

vfsShmUnlock(s, ofst, n, flags) ==
    LET sh == "SQLITE_SHM_SHARED" \in flags
        these_locks == IF sh THEN s.shared ELSE s.exclusive
        other_locks == IF sh THEN s.exclusive ELSE s.shared
        released == [i \in Slots |->
                       IF i \in LockRange(ofst, n) /\ these_locks[i] > 0
                       THEN these_locks[i] - 1
                       ELSE these_locks[i]]
    IN
    IF (\E i \in LockRange(ofst, n) : other_locks[i] # 0) /\ ~ndebug
    THEN [shm |-> s, rc |-> "SQLITE_OK", fault |-> "assert"]
    ELSE [shm |-> IF sh THEN [s EXCEPT !.shared = released]
                        ELSE [s EXCEPT !.exclusive = released],
          rc |-> "SQLITE_OK", fault |-> "none"]

\* Variant: the exclusive acquire looks at the exclusive counts only.
vfsShmLockExclusive_IgnoreShared(s, ofst, n) ==
    IF \E i \in LockRange(ofst, n) : s.exclusive[i] > 0
    THEN [shm |-> s, rc |-> "SQLITE_BUSY", fault |-> "none"]
    ELSE [shm |-> [s EXCEPT !.exclusive =
                      [i \in Slots |-> IF i \in LockRange(ofst, n) THEN 1 ELSE @[i]]],
          rc |-> "SQLITE_OK", fault |-> "none"]

vfsShmLockExclusive(s, ofst, n) ==
    IF \E i \in LockRange(ofst, n) : s.shared[i] > 0 \/ s.exclusive[i] > 0
    THEN [shm |-> s, rc |-> "SQLITE_BUSY", fault |-> "none"]
    ELSE [shm |-> [s EXCEPT !.exclusive =
                      [i \in Slots |-> IF i \in LockRange(ofst, n) THEN 1 ELSE @[i]]],
          rc |-> "SQLITE_OK", fault |-> "none"]

\* Variant: the shared acquire is refused only when a shared lock is held.
vfsShmLockShared_WrongTable(s, ofst, n) ==
    IF \E i \in LockRange(ofst, n) : s.shared[i] > 0
    THEN [shm |-> s, rc |-> "SQLITE_BUSY", fault |-> "none"]
    ELSE [shm |-> [s EXCEPT !.shared =
                      [i \in Slots |-> IF i \in LockRange(ofst, n) THEN @[i] + 1 ELSE @[i]]],
          rc |-> "SQLITE_OK", fault |-> "none"]

\* Variant: the shared acquire never checks the exclusive counts.
vfsShmLockShared_NoCheck(s, ofst, n) ==
    [shm |-> [s EXCEPT !.shared =
                 [i \in Slots |-> IF i \in LockRange(ofst, n) THEN @[i] + 1 ELSE @[i]]],
     rc |-> "SQLITE_OK", fault |-> "none"]

vfsShmLockShared(s, ofst, n) ==
    IF \E i \in LockRange(ofst, n) : s.exclusive[i] > 0
    THEN [shm |-> s, rc |-> "SQLITE_BUSY", fault |-> "none"]
    ELSE [shm |-> [s EXCEPT !.shared =
                      [i \in Slots |-> IF i \in LockRange(ofst, n) THEN @[i] + 1 ELSE @[i]]],
          rc |-> "SQLITE_OK", fault |-> "none"]

\* Variant: an exclusive acquire is served as a shared one.
vfsFileShmLockResult_AllShared(s, ofst, n, flags) ==
    IF "SQLITE_SHM_UNLOCK" \in flags THEN vfsShmUnlock(s, ofst, n, flags)
    ELSE vfsShmLockShared(s, ofst, n)

vfsFileShmLockResult(s, ofst, n, flags) ==
    IF "SQLITE_SHM_UNLOCK" \in flags THEN vfsShmUnlock(s, ofst, n, flags)
    ELSE IF "SQLITE_SHM_EXCLUSIVE" \in flags THEN vfsShmLockExclusive(s, ofst, n)
    ELSE vfsShmLockShared(s, ofst, n)

(***************************************************************************)
(* format.c: decoding of the page size stored in a database or WAL header. *)
(***************************************************************************)
\* The n bytes of buf from offset on.
Bytes(buf, offset, n) == BTake(BDrop(buf, offset), n)

\* memcpy(dst + at, src, n)
Memcpy(dst, at, src, n) ==
    BCat(BCat(BTake(dst, at), BTake(src, n)), BDrop(dst, at + n))

RECURSIVE BitAnd(_, _)
BitAnd(a, b) ==
    IF a = 0 \/ b = 0 THEN 0
    ELSE (a % 2) * (b % 2) + 2 * BitAnd(a \div 2, b \div 2)

\* Big-endian 32-bit value of four bytes (the first byte below 128 here).
formatGet32(buf) == buf[1] * 16777216 + buf[2] * 65536 + buf[3] * 256 + buf[4]

formatDecodePageSize(buf) ==
    LET page_size == formatGet32(buf) IN
    IF page_size = 1 THEN FORMAT__PAGE_SIZE_MAX
    ELSE IF page_size < FORMAT__PAGE_SIZE_MIN THEN 0
    ELSE IF page_size > (FORMAT__PAGE_SIZE_MAX \div 2) THEN 0
    ELSE IF BitAnd(page_size - 1, page_size) # 0 THEN 0
    ELSE page_size

formatDatabaseGetPageSize(header) ==
    formatDecodePageSize(<<0, 0, BByte(header, 16), BByte(header, 17)>>)

formatWalGetPageSize(header) ==
    formatDecodePageSize(<<BByte(header, 8), BByte(header, 9),
                           BByte(header, 10), BByte(header, 11)>>)

\* format__get_page_size(type, buf, &page_size): the decoded size, and an
\* error status when the stored value is not a valid page size.
format__get_page_size(type, buf) ==
    LET page_size == IF type = "FORMAT__DB"
                     THEN formatDatabaseGetPageSize(buf)
                     ELSE formatWalGetPageSize(buf)
    IN [rc |-> IF page_size = 0 THEN "SQLITE_CORRUPT" ELSE "SQLITE_OK",
        page_size |-> page_size]

\* C integer division (truncation toward zero).
CDiv(a, b) == IF a >= 0 THEN a \div b ELSE -((-a) \div b)

\* format__wal_calc_pgno(page_size, offset): the frame an offset falls in.
format__wal_calc_pgno(page_size, offset) ==
    CDiv(offset - FORMAT__WAL_HDR_SIZE, page_size + FORMAT__WAL_FRAME_HDR_SIZE) + 1

\* vfsGuessFileType: strstr(filename, "-wal") != NULL
vfsGuessFileType(filename) ==
    IF \E i \in 1 .. (Len(filename) - Len("-wal") + 1) :
          SubSeq(filename, i, i + Len("-wal") - 1) = "-wal"
    THEN "FORMAT__WAL" ELSE "FORMAT__DB"

(***************************************************************************)
(* The page store of one content object.                                   *)
(***************************************************************************)
vfsPageCreate(size, wal) ==
    [buf |-> Zeros(size),
     hdr |-> IF wal THEN Zeros(FORMAT__WAL_FRAME_HDR_SIZE) ELSE <<>>]

vfsContentIsEmpty(c) == n_pages(c) = 0

\* Variant: a page is appended whatever the page size.
vfsContentPageGet_NoSizeCheck(c, pgno) ==
    IF pgno > n_pages(c) + 1
    THEN [c |-> c, rc |-> "SQLITE_IOERR_WRITE", fault |-> "none"]
    ELSE IF pgno = n_pages(c) + 1
    THEN [c |-> [c EXCEPT !.pages =
                    Append(@, vfsPageCreate(c.page_size, c.type = "VFS__WAL"))],
          rc |-> "SQLITE_OK", fault |-> "none"]
    ELSE [c |-> c, rc |-> "SQLITE_OK", fault |-> "none"]

\* The page asked for is c.pages[pgno] of the content returned, when rc is OK.
vfsContentPageGet(c, pgno) ==
    IF pgno > n_pages(c) + 1
    THEN [c |-> c, rc |-> "SQLITE_IOERR_WRITE", fault |-> "none"]
    ELSE IF pgno = n_pages(c) + 1
    THEN IF c.page_size > 0
         THEN [c |-> [c EXCEPT !.pages =
                         Append(@, vfsPageCreate(c.page_size, c.type = "VFS__WAL"))],
               rc |-> "SQLITE_OK", fault |-> "none"]
         ELSE IF ~ndebug
         THEN [c |-> c, rc |-> "SQLITE_OK", fault |-> "assert"]
         \* sqlite3_malloc(0) returns NULL: vfsPageCreate fails
         ELSE [c |-> c, rc |-> "SQLITE_NOMEM", fault |-> "none"]
    ELSE [c |-> c, rc |-> "SQLITE_OK", fault |-> "none"]

\* 0 stands for the NULL page.
vfsContentPageLookup(c, pgno) == IF pgno > n_pages(c) THEN 0 ELSE pgno

\* Variant: the page vector is left as it is.
vfsContentTruncate_Keep(c, n) ==
    IF n > n_pages(c)
    THEN [c |-> c, fault |-> IF ndebug THEN "ub" ELSE "assert"]
    ELSE IF c.type = "VFS__WAL" /\ n # 0 /\ ~ndebug
    THEN [c |-> c, fault |-> "assert"]
    ELSE [c |-> [c EXCEPT !.hdr = IF c.type = "VFS__WAL"
                                  THEN Zeros(FORMAT__WAL_HDR_SIZE) ELSE @],
          fault |-> "none"]

vfsContentTruncate(c, n) ==
    IF n > n_pages(c)
    THEN [c |-> c, fault |-> IF ndebug THEN "ub" ELSE "assert"]
    ELSE IF c.type = "VFS__WAL" /\ n # 0 /\ ~ndebug
    THEN [c |-> c, fault |-> "assert"]
    ELSE [c |-> [c EXCEPT !.pages = SubSeq(@, 1, n),
                          !.hdr = IF c.type = "VFS__WAL"
                                  THEN Zeros(FORMAT__WAL_HDR_SIZE) ELSE @],
          fault |-> "none"]

\* Variant: the smallest page size is returned instead of the database's.
vfsDatabasePageSize_Fixed(v, wal_filename) ==
    LET d == vfsDatabaseContentLookup(v, wal_filename) IN
    IF d.rc # "SQLITE_OK"
    THEN [rc |-> d.rc, page_size |-> 0, fault |-> "none"]
    ELSE [rc |-> "SQLITE_OK", page_size |-> FORMAT__PAGE_SIZE_MIN, fault |-> "none"]

vfsDatabasePageSize(v, wal_filename) ==
    LET d == vfsDatabaseContentLookup(v, wal_filename) IN
    IF d.rc # "SQLITE_OK"
    THEN [rc |-> d.rc, page_size |-> 0, fault |-> "none"]
    ELSE IF v.contents[d.out].page_size = 0 /\ ~ndebug
    THEN [rc |-> "SQLITE_OK", page_size |-> 0, fault |-> "assert"]
    ELSE [rc |-> "SQLITE_OK", page_size |-> v.contents[d.out].page_size, fault |-> "none"]

(***************************************************************************)
(* vfsFileTruncate and vfsFileSize.                                        *)
(***************************************************************************)
IoResult(v, rc, ft, out) == [v |-> v, rc |-> rc, fault |-> ft, out |-> out]

\* Variant: a call drops one page at most.
vfsFileTruncateResult_OnePage(v, f, size) ==
    LET c == Deref(v, f.content)
        pgno == IF c.type # "VFS__DATABASE" THEN 0
                ELSE IF size \div c.page_size < n_pages(c) - 1 THEN n_pages(c) - 1
                ELSE size \div c.page_size
        t == vfsContentTruncate(c, pgno)
    IN
    IF c.type # "VFS__DATABASE" /\ c.type # "VFS__WAL"
    THEN IoResult(v, "SQLITE_IOERR_TRUNCATE", "none", NULL)
    ELSE IF vfsContentIsEmpty(c)
    THEN IoResult(v, IF size > 0 THEN "SQLITE_IOERR_TRUNCATE" ELSE "SQLITE_OK", "none", NULL)
    ELSE IF c.type = "VFS__DATABASE" /\ (size % c.page_size) # 0
    THEN IoResult(v, "SQLITE_IOERR_TRUNCATE", "none", NULL)
    ELSE IF c.type = "VFS__WAL" /\ size # 0
    THEN IoResult(v, "SQLITE_PROTOCOL", "none", NULL)
    ELSE IF t.fault # "none"
    THEN IoResult(v, "SQLITE_OK", t.fault, NULL)
    ELSE IoResult(Store(v, f.content, t.c), "SQLITE_OK", "none", NULL)

vfsFileTruncateResult(v, f, size) ==
    LET c == Deref(v, f.content)
        pgno == IF c.type = "VFS__DATABASE" THEN size \div c.page_size ELSE 0
        t == vfsContentTruncate(c, pgno)
    IN
    IF c.type # "VFS__DATABASE" /\ c.type # "VFS__WAL"
    THEN IoResult(v, "SQLITE_IOERR_TRUNCATE", "none", NULL)
    ELSE IF vfsContentIsEmpty(c)
    THEN IoResult(v, IF size > 0 THEN "SQLITE_IOERR_TRUNCATE" ELSE "SQLITE_OK", "none", NULL)
    ELSE IF c.type = "VFS__DATABASE" /\ (size % c.page_size) # 0
    THEN IoResult(v, "SQLITE_IOERR_TRUNCATE", "none", NULL)
    ELSE IF c.type = "VFS__WAL" /\ size # 0
    THEN IoResult(v, "SQLITE_PROTOCOL", "none", NULL)
    ELSE IF t.fault # "none"
    THEN IoResult(v, "SQLITE_OK", t.fault, NULL)
    ELSE IoResult(Store(v, f.content, t.c), "SQLITE_OK", "none", NULL)

vfsFileSizeResult(c) ==
    IF vfsContentIsEmpty(c) THEN 0
    ELSE IF c.type = "VFS__DATABASE" THEN n_pages(c) * c.page_size
    ELSE IF c.type = "VFS__JOURNAL" THEN 0
    ELSE FORMAT__WAL_HDR_SIZE + n_pages(c) * (FORMAT__WAL_FRAME_HDR_SIZE + c.page_size)

(***************************************************************************)
(* vfsFileRead on the handle f.  out is the content of the caller's buffer *)
(* after the call (amount bytes).                                          *)
(***************************************************************************)
vfsFileReadDatabase(v, c, amount, offset) ==
    LET ps == c.page_size
        first == offset < ps
        pgno == IF first THEN 1 ELSE (offset \div ps) + 1
        shape == IF first THEN amount <= ps ELSE amount = ps /\ (offset % ps) = 0
        at == IF pgno = 1 THEN offset ELSE 0
    IN
    IF ~shape /\ ~ndebug THEN IoResult(v, "SQLITE_OK", "assert", <<>>)
    \* memcpy from the NULL page, or beyond the end of the page
    ELSE IF vfsContentPageLookup(c, pgno) = 0 \/ at + amount > ps
    THEN IoResult(v, "SQLITE_OK", "ub", <<>>)
    ELSE IoResult(v, "SQLITE_OK", "none", Bytes(c.pages[pgno].buf, at, amount))

\* Variant: a whole-frame read returns the page body before the frame header.
vfsFileReadWal_BodyFirst(v, c, amount, offset) ==
    LET ps == c.page_size
        frame == ps + FORMAT__WAL_FRAME_HDR_SIZE
        kind == IF amount = FORMAT__WAL_FRAME_HDR_SIZE THEN "hdr"
                ELSE IF amount = 8 THEN "checksum"
                ELSE IF amount = ps THEN "page"
                ELSE "frame"
        pgno == IF kind = "checksum"
                THEN CDiv(offset - 16 - FORMAT__WAL_HDR_SIZE, frame) + 1
                ELSE format__wal_calc_pgno(ps, offset)
        shape == CASE kind = "hdr" -> ((offset - FORMAT__WAL_HDR_SIZE) % frame) = 0
                   [] kind = "checksum" -> ((offset - 16 - FORMAT__WAL_HDR_SIZE) % frame) = 0
                   [] kind = "page" ->
                        ((offset - FORMAT__WAL_HDR_SIZE - FORMAT__WAL_FRAME_HDR_SIZE) % frame) = 0
                   [] OTHER -> amount = FORMAT__WAL_FRAME_HDR_SIZE + ps
        page == c.pages[pgno]
    IN
    IF offset = 0
    THEN IF amount # FORMAT__WAL_HDR_SIZE /\ ~ndebug
         THEN IoResult(v, "SQLITE_OK", "assert", <<>>)
         \* memcpy of FORMAT__WAL_HDR_SIZE bytes into a shorter buffer
         ELSE IF amount < FORMAT__WAL_HDR_SIZE
         THEN IoResult(v, "SQLITE_OK", "ub", <<>>)
         ELSE IoResult(v, "SQLITE_OK", "none",
                       BCat(c.hdr, Zeros(amount - FORMAT__WAL_HDR_SIZE)))
    ELSE IF kind = "checksum" /\ offset = FORMAT__WAL_FRAME_HDR_SIZE
    THEN IoResult(v, "SQLITE_OK", "none", Bytes(c.hdr, offset, amount))
    ELSE IF ~shape /\ ~ndebug
    THEN IoResult(v, "SQLITE_OK", "assert", <<>>)
    ELSE IF pgno = 0
    THEN IoResult(v, "SQLITE_IOERR_SHORT_READ", "none", Zeros(amount))
    \* the page is NULL (or pgno is negative) and is dereferenced
    ELSE IF pgno < 0 \/ vfsContentPageLookup(c, pgno) = 0
    THEN IoResult(v, "SQLITE_OK", "ub", <<>>)
    ELSE IF kind = "hdr" THEN IoResult(v, "SQLITE_OK", "none", page.hdr)
    ELSE IF kind = "checksum" THEN IoResult(v, "SQLITE_OK", "none", Bytes(page.hdr, 16, 8))
    ELSE IF kind = "page" THEN IoResult(v, "SQLITE_OK", "none", page.buf)
    \* the caller's buffer holds amount bytes and 24 + page_size are copied
    ELSE IF amount < FORMAT__WAL_FRAME_HDR_SIZE + ps
    THEN IoResult(v, "SQLITE_OK", "ub", <<>>)
    ELSE IoResult(v, "SQLITE_OK", "none",
                  BCat(BCat(page.buf, page.hdr),
                       Zeros(amount - FORMAT__WAL_FRAME_HDR_SIZE - ps)))

vfsFileReadWal(v, c, amount, offset) ==
    LET ps == c.page_size
        frame == ps + FORMAT__WAL_FRAME_HDR_SIZE
        kind == IF amount = FORMAT__WAL_FRAME_HDR_SIZE THEN "hdr"
                ELSE IF amount = 8 THEN "checksum"
                ELSE IF amount = ps THEN "page"
                ELSE "frame"
        pgno == IF kind = "checksum"
                THEN CDiv(offset - 16 - FORMAT__WAL_HDR_SIZE, frame) + 1
                ELSE format__wal_calc_pgno(ps, offset)
        shape == CASE kind = "hdr" -> ((offset - FORMAT__WAL_HDR_SIZE) % frame) = 0
                   [] kind = "checksum" -> ((offset - 16 - FORMAT__WAL_HDR_SIZE) % frame) = 0
                   [] kind = "page" ->
                        ((offset - FORMAT__WAL_HDR_SIZE - FORMAT__WAL_FRAME_HDR_SIZE) % frame) = 0
                   [] OTHER -> amount = FORMAT__WAL_FRAME_HDR_SIZE + ps
        page == c.pages[pgno]
    IN
    IF offset = 0
    THEN IF amount # FORMAT__WAL_HDR_SIZE /\ ~ndebug
         THEN IoResult(v, "SQLITE_OK", "assert", <<>>)
         \* memcpy of FORMAT__WAL_HDR_SIZE bytes into a shorter buffer
         ELSE IF amount < FORMAT__WAL_HDR_SIZE
         THEN IoResult(v, "SQLITE_OK", "ub", <<>>)
         ELSE IoResult(v, "SQLITE_OK", "none",
                       BCat(c.hdr, Zeros(amount - FORMAT__WAL_HDR_SIZE)))
    ELSE IF kind = "checksum" /\ offset = FORMAT__WAL_FRAME_HDR_SIZE
    THEN IoResult(v, "SQLITE_OK", "none", Bytes(c.hdr, offset, amount))
    ELSE IF ~shape /\ ~ndebug
    THEN IoResult(v, "SQLITE_OK", "assert", <<>>)
    ELSE IF pgno = 0
    THEN IoResult(v, "SQLITE_IOERR_SHORT_READ", "none", Zeros(amount))
    \* the page is NULL (or pgno is negative) and is dereferenced
    ELSE IF pgno < 0 \/ vfsContentPageLookup(c, pgno) = 0
    THEN IoResult(v, "SQLITE_OK", "ub", <<>>)
    ELSE IF kind = "hdr" THEN IoResult(v, "SQLITE_OK", "none", page.hdr)
    ELSE IF kind = "checksum" THEN IoResult(v, "SQLITE_OK", "none", Bytes(page.hdr, 16, 8))
    ELSE IF kind = "page" THEN IoResult(v, "SQLITE_OK", "none", page.buf)
    \* the caller's buffer holds amount bytes and 24 + page_size are copied
    ELSE IF amount < FORMAT__WAL_FRAME_HDR_SIZE + ps
    THEN IoResult(v, "SQLITE_OK", "ub", <<>>)
    ELSE IoResult(v, "SQLITE_OK", "none",
                  BCat(BCat(page.hdr, page.buf),
                       Zeros(amount - FORMAT__WAL_FRAME_HDR_SIZE - ps)))

\* Variant: a read of an empty file reports a read error.
vfsFileReadResult_EmptyFails(v, f, amount, offset) ==
    LET c == Deref(v, f.content)
        d == vfsDatabasePageSize(v, c.filename)
        c1 == [c EXCEPT !.page_size = d.page_size]
        v1 == Store(v, f.content, c1)
    IN
    IF vfsContentIsEmpty(c)
    THEN IoResult(v, "SQLITE_IOERR_READ", "none", Zeros(amount))
    ELSE IF c.type = "VFS__DATABASE" THEN vfsFileReadDatabase(v, c, amount, offset)
    ELSE IF c.type = "VFS__JOURNAL" THEN IoResult(v, "SQLITE_IOERR_READ", "none", <<>>)
    ELSE IF c.page_size # 0 THEN vfsFileReadWal(v, c, amount, offset)
    ELSE IF d.fault # "none" THEN IoResult(v, "SQLITE_OK", d.fault, <<>>)
    ELSE IF d.rc # "SQLITE_OK" THEN IoResult(v, d.rc, "none", <<>>)
    ELSE vfsFileReadWal(v1, c1, amount, offset)

vfsFileReadResult(v, f, amount, offset) ==
    LET c == Deref(v, f.content)
        d == vfsDatabasePageSize(v, c.filename)
        c1 == [c EXCEPT !.page_size = d.page_size]
        v1 == Store(v, f.content, c1)
    IN
    IF vfsContentIsEmpty(c)
    THEN IoResult(v, "SQLITE_IOERR_SHORT_READ", "none", Zeros(amount))
    ELSE IF c.type = "VFS__DATABASE" THEN vfsFileReadDatabase(v, c, amount, offset)
    ELSE IF c.type = "VFS__JOURNAL" THEN IoResult(v, "SQLITE_IOERR_READ", "none", <<>>)
    ELSE IF c.page_size # 0 THEN vfsFileReadWal(v, c, amount, offset)
    ELSE IF d.fault # "none" THEN IoResult(v, "SQLITE_OK", d.fault, <<>>)
    ELSE IF d.rc # "SQLITE_OK" THEN IoResult(v, d.rc, "none", <<>>)
    ELSE vfsFileReadWal(v1, c1, amount, offset)

(***************************************************************************)
(* vfsFileWrite on the handle f: amount bytes of buf at offset.            *)
(***************************************************************************)
\* Variant: the bytes are copied into the first page.
vfsWritePageBuf_FirstPage(v, p, c, pgno, buf, amount) ==
    LET g == vfsContentPageGet(c, pgno) IN
    IF g.fault # "none" THEN IoResult(v, "SQLITE_OK", g.fault, NULL)
    ELSE IF g.rc # "SQLITE_OK" THEN IoResult(Store(v, p, g.c), g.rc, "none", NULL)
    ELSE IF amount > BLen(g.c.pages[pgno].buf) THEN IoResult(v, "SQLITE_OK", "ub", NULL)
    ELSE IoResult(Store(v, p, [g.c EXCEPT !.pages[1].buf = Memcpy(@, 0, buf, amount)]),
                  "SQLITE_OK", "none", NULL)

\* vfsContentPageGet followed by the memcpy into the page body.
vfsWritePageBuf(v, p, c, pgno, buf, amount) ==
    LET g == vfsContentPageGet(c, pgno) IN
    IF g.fault # "none" THEN IoResult(v, "SQLITE_OK", g.fault, NULL)
    ELSE IF g.rc # "SQLITE_OK" THEN IoResult(Store(v, p, g.c), g.rc, "none", NULL)
    \* memcpy beyond the end of the page
    ELSE IF amount > BLen(g.c.pages[pgno].buf) THEN IoResult(v, "SQLITE_OK", "ub", NULL)
    ELSE IoResult(Store(v, p, [g.c EXCEPT !.pages[pgno].buf = Memcpy(@, 0, buf, amount)]),
                  "SQLITE_OK", "none", NULL)

vfsFileWriteDatabase(v, p, c, buf, amount, offset) ==
    LET g == format__get_page_size("FORMAT__DB", buf)
        c1 == IF c.page_size > 0 THEN c ELSE [c EXCEPT !.page_size = g.page_size]
        ps == c.page_size
    IN
    IF offset = 0
    THEN IF amount < FORMAT__DB_HDR_SIZE /\ ~ndebug
         THEN IoResult(v, "SQLITE_OK", "assert", NULL)
         \* the header bytes 16 and 17 are read beyond the buffer
         ELSE IF amount < 18 THEN IoResult(v, "SQLITE_OK", "ub", NULL)
         ELSE IF g.rc # "SQLITE_OK" THEN IoResult(v, g.rc, "none", NULL)
         ELSE IF c.page_size > 0 /\ g.page_size # c.page_size /\ ~ndebug
         THEN IoResult(v, "SQLITE_OK", "assert", NULL)
         ELSE vfsWritePageBuf(v, p, c1, 1, buf, amount)
    ELSE IF ps = 0 THEN IoResult(v, "SQLITE_IOERR_WRITE", "none", NULL)
    ELSE IF ((offset % ps) # 0 \/ amount # ps) /\ ~ndebug
    THEN IoResult(v, "SQLITE_OK", "assert", NULL)
    ELSE vfsWritePageBuf(v, p, c, (offset \div ps) + 1, buf, amount)

\* Variant: the header is stored before its page size is compared.
vfsFileWriteWal_StoreFirst(v, p, c, buf, amount, offset) ==
    LET ps == c.page_size
        frame == ps + FORMAT__WAL_FRAME_HDR_SIZE
        g == format__get_page_size("FORMAT__WAL", buf)
        pgno == format__wal_calc_pgno(ps, offset)
        get == vfsContentPageGet(c, pgno)
        saved == Store(v, p, c)
    IN
    IF offset = 0
    THEN IF amount # FORMAT__WAL_HDR_SIZE /\ ~ndebug
         THEN IoResult(v, "SQLITE_OK", "assert", NULL)
         \* the header bytes 8 to 11 are read beyond the buffer
         ELSE IF amount < 12 THEN IoResult(v, "SQLITE_OK", "ub", NULL)
         ELSE IF g.rc # "SQLITE_OK" THEN IoResult(saved, "SQLITE_CORRUPT", "none", NULL)
         ELSE IF g.page_size # ps
         THEN IoResult(Store(v, p, [c EXCEPT !.hdr = Memcpy(@, 0, buf, amount)]),
                       "SQLITE_CORRUPT", "none", NULL)
         \* memcpy beyond the end of the header buffer
         ELSE IF amount > FORMAT__WAL_HDR_SIZE THEN IoResult(v, "SQLITE_OK", "ub", NULL)
         ELSE IoResult(Store(v, p, [c EXCEPT !.hdr = Memcpy(@, 0, buf, amount)]),
                       "SQLITE_OK", "none", NULL)
    ELSE IF ps = 0 /\ ~ndebug THEN IoResult(v, "SQLITE_OK", "assert", NULL)
    ELSE IF amount = FORMAT__WAL_FRAME_HDR_SIZE
    THEN IF ((offset - FORMAT__WAL_HDR_SIZE) % frame) # 0 /\ ~ndebug
         THEN IoResult(v, "SQLITE_OK", "assert", NULL)
         \* pgno is passed as an int that must be positive
         ELSE IF pgno <= 0
         THEN IoResult(v, "SQLITE_OK", IF ndebug THEN "ub" ELSE "assert", NULL)
         ELSE IF get.fault # "none" THEN IoResult(v, "SQLITE_OK", get.fault, NULL)
         ELSE IF get.rc # "SQLITE_OK" THEN IoResult(saved, "SQLITE_NOMEM", "none", NULL)
         ELSE IoResult(Store(v, p, [get.c EXCEPT !.pages[pgno].hdr = Memcpy(@, 0, buf, amount)]),
                       "SQLITE_OK", "none", NULL)
    ELSE IF (amount # ps
             \/ ((offset - FORMAT__WAL_HDR_SIZE - FORMAT__WAL_FRAME_HDR_SIZE) % frame) # 0)
            /\ ~ndebug
    THEN IoResult(v, "SQLITE_OK", "assert", NULL)
    ELSE IF pgno <= 0 \/ vfsContentPageLookup(c, pgno) = 0
    THEN IoResult(v, "SQLITE_OK", IF ndebug THEN "ub" ELSE "assert", NULL)
    \* memcpy beyond the end of the page
    ELSE IF amount > ps THEN IoResult(v, "SQLITE_OK", "ub", NULL)
    ELSE IoResult(Store(v, p, [c EXCEPT !.pages[pgno].buf = Memcpy(@, 0, buf, amount)]),
                  "SQLITE_OK", "none", NULL)

\* The WAL write once the page size has been looked up.
vfsFileWriteWal(v, p, c, buf, amount, offset) ==
    LET ps == c.page_size
        frame == ps + FORMAT__WAL_FRAME_HDR_SIZE
        g == format__get_page_size("FORMAT__WAL", buf)
        pgno == format__wal_calc_pgno(ps, offset)
        get == vfsContentPageGet(c, pgno)
        saved == Store(v, p, c)
    IN
    IF offset = 0
    THEN IF amount # FORMAT__WAL_HDR_SIZE /\ ~ndebug
         THEN IoResult(v, "SQLITE_OK", "assert", NULL)
         \* the header bytes 8 to 11 are read beyond the buffer
         ELSE IF amount < 12 THEN IoResult(v, "SQLITE_OK", "ub", NULL)
         ELSE IF g.rc # "SQLITE_OK" THEN IoResult(saved, "SQLITE_CORRUPT", "none", NULL)
         ELSE IF g.page_size # ps THEN IoResult(saved, "SQLITE_CORRUPT", "none", NULL)
         \* memcpy beyond the end of the header buffer
         ELSE IF amount > FORMAT__WAL_HDR_SIZE THEN IoResult(v, "SQLITE_OK", "ub", NULL)
         ELSE IoResult(Store(v, p, [c EXCEPT !.hdr = Memcpy(@, 0, buf, amount)]),
                       "SQLITE_OK", "none", NULL)
    ELSE IF ps = 0 /\ ~ndebug THEN IoResult(v, "SQLITE_OK", "assert", NULL)
    ELSE IF amount = FORMAT__WAL_FRAME_HDR_SIZE
    THEN IF ((offset - FORMAT__WAL_HDR_SIZE) % frame) # 0 /\ ~ndebug
         THEN IoResult(v, "SQLITE_OK", "assert", NULL)
         \* pgno is passed as an int that must be positive
         ELSE IF pgno <= 0
         THEN IoResult(v, "SQLITE_OK", IF ndebug THEN "ub" ELSE "assert", NULL)
         ELSE IF get.fault # "none" THEN IoResult(v, "SQLITE_OK", get.fault, NULL)
         ELSE IF get.rc # "SQLITE_OK" THEN IoResult(saved, "SQLITE_NOMEM", "none", NULL)
         ELSE IoResult(Store(v, p, [get.c EXCEPT !.pages[pgno].hdr = Memcpy(@, 0, buf, amount)]),
                       "SQLITE_OK", "none", NULL)
    ELSE IF (amount # ps
             \/ ((offset - FORMAT__WAL_HDR_SIZE - FORMAT__WAL_FRAME_HDR_SIZE) % frame) # 0)
            /\ ~ndebug
    THEN IoResult(v, "SQLITE_OK", "assert", NULL)
    ELSE IF pgno <= 0 \/ vfsContentPageLookup(c, pgno) = 0
    THEN IoResult(v, "SQLITE_OK", IF ndebug THEN "ub" ELSE "assert", NULL)
    \* memcpy beyond the end of the page
    ELSE IF amount > ps THEN IoResult(v, "SQLITE_OK", "ub", NULL)
    ELSE IoResult(Store(v, p, [c EXCEPT !.pages[pgno].buf = Memcpy(@, 0, buf, amount)]),
                  "SQLITE_OK", "none", NULL)

\* Variant: a WAL is written without looking up the database's page size.
vfsFileWriteResult_NoInherit(v, f, buf, amount, offset) ==
    LET c == Deref(v, f.content) IN
    IF c.type = "VFS__DATABASE" THEN vfsFileWriteDatabase(v, f.content, c, buf, amount, offset)
    ELSE IF c.type = "VFS__JOURNAL" THEN IoResult(v, "SQLITE_OK", "none", NULL)
    ELSE vfsFileWriteWal(v, f.content, c, buf, amount, offset)

vfsFileWriteResult(v, f, buf, amount, offset) ==
    LET c == Deref(v, f.content)
        d == vfsDatabasePageSize(v, c.filename)
    IN
    IF c.type = "VFS__DATABASE" THEN vfsFileWriteDatabase(v, f.content, c, buf, amount, offset)
    ELSE IF c.type = "VFS__JOURNAL" THEN IoResult(v, "SQLITE_OK", "none", NULL)
    ELSE IF c.page_size # 0 THEN vfsFileWriteWal(v, f.content, c, buf, amount, offset)
    ELSE IF d.fault # "none" THEN IoResult(v, "SQLITE_OK", d.fault, NULL)
    ELSE IF d.rc # "SQLITE_OK" THEN IoResult(v, d.rc, "none", NULL)
    ELSE vfsFileWriteWal(v, f.content, [c EXCEPT !.page_size = d.page_size],
                         buf, amount, offset)

(***************************************************************************)
(* vfsFileControl.  The argument of SQLITE_FCNTL_PRAGMA is the pragma's     *)
(* name (left) and its value (right): right is <<>> for a NULL value and   *)
(* <<x>> otherwise, x being the integer atoi reads for page_size and the   *)
(* string itself for journal_mode.  out is the error message stored in     *)
(* fnctl[0] (NULL when none).                                              *)
(***************************************************************************)
\* The check copied from sqlite3BtreeSetPageSize.
vfsPageSizeValid(page_size) ==
    /\ page_size >= FORMAT__PAGE_SIZE_MIN
    /\ page_size <= FORMAT__PAGE_SIZE_MAX
    /\ BitAnd(page_size - 1, page_size) = 0

\* Variant: the new size is stored without looking at the one already set.
vfsFileControlPragma_Overwrite(v, f, left, right) ==
    IF left = "page_size" /\ right # <<>> /\ vfsPageSizeValid(right[1])
    THEN IoResult(Store(v, f.content, [Deref(v, f.content) EXCEPT !.page_size = right[1]]),
                  "SQLITE_NOTFOUND", "none", NULL)
    ELSE IoResult(v, "SQLITE_NOTFOUND", "none", NULL)

vfsFileControlPragma(v, f, left, right) ==
    LET c == Deref(v, f.content) IN
    IF left = "page_size" /\ right # <<>>
    THEN IF vfsPageSizeValid(right[1])
         THEN IF c.page_size # 0 /\ right[1] # c.page_size
              THEN IoResult(v, "SQLITE_IOERR", "none", "changing page size is not supported")
              ELSE IoResult(Store(v, f.content, [c EXCEPT !.page_size = right[1]]),
                            "SQLITE_NOTFOUND", "none", NULL)
         ELSE IoResult(v, "SQLITE_NOTFOUND", "none", NULL)
    ELSE IF left = "journal_mode" /\ right # <<>>
    THEN IF right[1] # "wal"
         THEN IoResult(v, "SQLITE_IOERR", "none", "only WAL mode is supported")
         ELSE IoResult(v, "SQLITE_NOTFOUND", "none", NULL)
    ELSE IoResult(v, "SQLITE_NOTFOUND", "none", NULL)

vfsFileControlResult(v, f, op, arg) ==
    IF op = "SQLITE_FCNTL_PRAGMA"
    THEN vfsFileControlPragma(v, f, arg.left, arg.right)
    ELSE IoResult(v, "SQLITE_OK", "none", NULL)

(***************************************************************************)
(* VfsFileRead (bulk export) and VfsFileWrite (bulk import).  Both open    *)
(* their own handle on the named file.                                     *)
(***************************************************************************)
BulkFlags(type, create) ==
    {"SQLITE_OPEN_READWRITE"}
    \cup (IF create THEN {"SQLITE_OPEN_CREATE"} ELSE {})
    \cup (IF type = "FORMAT__DB" THEN {"SQLITE_OPEN_MAIN_DB"} ELSE {"SQLITE_OPEN_WAL"})

\* xClose, then the return of rc: the normal exit and err_after_file_open.
\* cl is the outcome of the xClose.
BulkClose(cl, rc, buf) == [v |-> cl.v, rc |-> rc, fault |-> cl.fault, buf |-> buf]

BulkFailClosed(v, f, rc) == BulkClose(vfsFileCloseResult(v, f), rc, <<>>)

BulkFault(v, ft) == [v |-> v, rc |-> "SQLITE_OK", fault |-> ft, buf |-> <<>>]

\* What follows an xRead or xWrite whose outcome is r: the process stops on a
\* fault, an error status closes the file and is returned, otherwise the
\* call goes on with Then.
BulkStep(v, f, r, Then(_)) ==
    IF r.fault # "none" THEN BulkFault(v, r.fault)
    ELSE IF r.rc # "SQLITE_OK" THEN BulkFailClosed(r.v, f, r.rc)
    ELSE Then(r)

\* The read loop of VfsFileRead; acc is the part of the buffer filled so far.
RECURSIVE VfsFileReadLoop(_, _, _, _, _, _, _)

\* The read of one page at offset at.
VfsFileReadPage(v, f, type, page_size, at, len, acc) ==
    \* the page is read into the buffer beyond its end
    IF at + page_size > len THEN BulkFault(v, "ub")
    ELSE BulkStep(v, f, vfsFileReadResult(v, f, page_size, at),
                  LAMBDA r : VfsFileReadLoop(r.v, f, type, page_size, at + page_size, len,
                                             BCat(acc, r.out)))

VfsFileReadLoop(v, f, type, page_size, offset, len, acc) ==
    IF offset >= len THEN BulkClose(vfsFileCloseResult(v, f), "SQLITE_OK", acc)
    ELSE IF type # "FORMAT__WAL" THEN VfsFileReadPage(v, f, type, page_size, offset, len, acc)
    \* the frame header is read into the buffer beyond its end
    ELSE IF offset + FORMAT__WAL_FRAME_HDR_SIZE > len THEN BulkFault(v, "ub")
    ELSE BulkStep(v, f, vfsFileReadResult(v, f, FORMAT__WAL_FRAME_HDR_SIZE, offset),
                  LAMBDA h : VfsFileReadPage(h.v, f, type, page_size,
                                             offset + FORMAT__WAL_FRAME_HDR_SIZE, len,
                                             BCat(acc, h.out)))

\* VfsFileRead once the header has been read (h) and decoded (g).
VfsFileReadHeader(h, f, type, len, g) ==
    IF g.rc # "SQLITE_OK" THEN BulkFailClosed(h.v, f, g.rc)
    ELSE VfsFileReadLoop(h.v, f, type, g.page_size,
                         IF type = "FORMAT__WAL" THEN FORMAT__WAL_HDR_SIZE ELSE 0,
                         len,
                         IF type = "FORMAT__WAL" THEN h.out ELSE <<>>)

\* VfsFileRead once the file is open and its size len is known.
VfsFileReadSized(v, f, type, len) ==
    IF len = 0 THEN BulkClose(vfsFileCloseResult(v, f), "SQLITE_OK", <<>>)
    \* the header is read into a buffer shorter than a header
    ELSE IF len < FORMAT__WAL_HDR_SIZE THEN BulkFault(v, "ub")
    ELSE BulkStep(v, f, vfsFileReadResult(v, f, FORMAT__WAL_HDR_SIZE, 0),
                  LAMBDA h : VfsFileReadHeader(h, f, type, len,
                                               format__get_page_size(type, h.out)))

\* VfsFileRead after xOpen, whose outcome is o.
VfsFileReadOpened(o, flags, type) ==
    IF o.rc # "SQLITE_OK" THEN [v |-> o.v, rc |-> o.rc, fault |-> "none", buf |-> <<>>]
    ELSE VfsFileReadSized(o.v, [content |-> o.content, flags |-> flags], type,
                          vfsFileSizeResult(Deref(o.v, o.content)))

VfsFileReadResult(v, filename) ==
    VfsFileReadOpened(
        vfsOpenResult(v, filename, BulkFlags(vfsGuessFileType(filename), FALSE), "none"),
        BulkFlags(vfsGuessFileType(filename), FALSE),
        vfsGuessFileType(filename))

\* The write loop of VfsFileWrite.
RECURSIVE VfsFileWriteLoop(_, _, _, _, _, _, _)

\* The write of one page from offset at.
VfsFileWritePage(v, f, type, page_size, at, buf, len) ==
    \* the page is read beyond the end of buf
    IF at + page_size > len THEN BulkFault(v, "ub")
    ELSE BulkStep(v, f, vfsFileWriteResult(v, f, Bytes(buf, at, page_size), page_size, at),
                  LAMBDA w : VfsFileWriteLoop(w.v, f, type, page_size, at + page_size,
                                              buf, len))

VfsFileWriteLoop(v, f, type, page_size, offset, buf, len) ==
    IF offset >= len THEN BulkClose(vfsFileCloseResult(v, f), "SQLITE_OK", <<>>)
    ELSE IF type # "FORMAT__WAL" THEN VfsFileWritePage(v, f, type, page_size, offset, buf, len)
    \* the frame header is read beyond the end of buf
    ELSE IF offset + FORMAT__WAL_FRAME_HDR_SIZE > len THEN BulkFault(v, "ub")
    ELSE BulkStep(v, f,
                  vfsFileWriteResult(v, f, Bytes(buf, offset, FORMAT__WAL_FRAME_HDR_SIZE),
                                     FORMAT__WAL_FRAME_HDR_SIZE, offset),
                  LAMBDA h : VfsFileWritePage(h.v, f, type, page_size,
                                              offset + FORMAT__WAL_FRAME_HDR_SIZE, buf, len))

\* VfsFileWrite after xTruncate, whose outcome is t; g is the page size
\* decoded from buf.
VfsFileWriteTruncated(t, f, type, buf, len, g) ==
    IF t.fault # "none" THEN BulkFault(t.v, t.fault)
    \* err_after_file_malloc: the file is freed without being closed
    ELSE IF t.rc # "SQLITE_OK"
    THEN [v |-> t.v, rc |-> t.rc, fault |-> "none", buf |-> <<>>]
    \* the header bytes are read beyond the end of buf
    ELSE IF len < 18 THEN BulkFault(t.v, "ub")
    ELSE IF g.rc # "SQLITE_OK" THEN BulkFailClosed(t.v, f, g.rc)
    ELSE IF type # "FORMAT__WAL"
    THEN VfsFileWriteLoop(t.v, f, type, g.page_size, 0, buf, len)
    ELSE IF len < FORMAT__WAL_HDR_SIZE THEN BulkFault(t.v, "ub")
    ELSE BulkStep(t.v, f,
                  vfsFileWriteResult(t.v, f, Bytes(buf, 0, FORMAT__WAL_HDR_SIZE),
                                     FORMAT__WAL_HDR_SIZE, 0),
                  LAMBDA h : VfsFileWriteLoop(h.v, f, type, g.page_size,
                                              FORMAT__WAL_HDR_SIZE, buf, len))

\* VfsFileWrite after xOpen, whose outcome is o.
VfsFileWriteOpened(o, flags, type, buf, len) ==
    IF o.rc # "SQLITE_OK" THEN [v |-> o.v, rc |-> o.rc, fault |-> "none", buf |-> <<>>]
    ELSE VfsFileWriteTruncated(
             vfsFileTruncateResult(o.v, [content |-> o.content, flags |-> flags], 0),
             [content |-> o.content, flags |-> flags], type, buf, len,
             format__get_page_size(type, buf))

VfsFileWriteResult(v, filename, buf, len) ==
    VfsFileWriteOpened(
        vfsOpenResult(v, filename, BulkFlags(vfsGuessFileType(filename), TRUE), "none"),
        BulkFlags(vfsGuessFileType(filename), TRUE),
        vfsGuessFileType(filename), buf, len)

(***************************************************************************)
(* The calls.  Each action is one call made by the SQL engine or by the    *)
(* replication layer; ret records the call and what it returned.           *)
(***************************************************************************)
Call(op, args, rc, out) == [op |-> op, args |-> args, rc |-> rc, out |-> out]

Running == fault = "none"

IsOpen(h) == handles[h] # NoFile

Content(h) == Deref(vfs, handles[h].content)

\* The file names used and the file-type flag the engine passes with each.
RegFilenames == {"db", "db-wal"}
BulkFilenames == {"db", "db-journal"}

HasSuffix(name, suffix) ==
    /\ Len(name) >= Len(suffix)
    /\ SubSeq(name, Len(name) - Len(suffix) + 1, Len(name)) = suffix

TypeFlag(name) ==
    IF HasSuffix(name, "-wal") THEN "SQLITE_OPEN_WAL"
    ELSE IF HasSuffix(name, "-journal") THEN "SQLITE_OPEN_MAIN_JOURNAL"
    ELSE "SQLITE_OPEN_MAIN_DB"

OpenFlags(name) ==
    { {TypeFlag(name)} \cup o : o \in { {},
                                        {"SQLITE_OPEN_CREATE"},
                                        {"SQLITE_OPEN_CREATE", "SQLITE_OPEN_EXCLUSIVE"},
                                        {"SQLITE_OPEN_CREATE", "SQLITE_OPEN_DELETEONCLOSE"} } }
    \cup { {"SQLITE_OPEN_CREATE"} }

Ooms == {"none", "contents", "content"}

\* The handles once the object i has left the array.
RenumberFiles(hs, i) ==
    [h \in DOMAIN hs |-> [hs[h] EXCEPT !.content = Renumber(@, i)]]

\* Of the flags saved in the handle only this bit is ever read back (by
\* vfsFileClose); the handle keeps that bit.
SavedFlags(flags) == flags \cap {"SQLITE_OPEN_DELETEONCLOSE"}

\* The engine allocates the sqlite3_file; the free slot used is immaterial
\* and the lowest one is taken.
vfsOpen(h, filename, flags, oom) ==
    /\ Running
    /\ ~IsOpen(h)
    /\ \A g \in 1 .. (h - 1) : IsOpen(g)
    /\ \E r \in {vfsOpenResult(vfs, filename, flags, oom)} :
       /\ vfs' = r.v
       /\ handles' = IF r.rc = "SQLITE_OK"
                     THEN [handles EXCEPT ![h] = [content |-> r.content,
                                                  flags |-> SavedFlags(flags)]]
                     ELSE handles
       /\ ret' = Call("vfsOpen",
                      [h |-> h, filename |-> filename, flags |-> flags, oom |-> oom],
                      r.rc, NULL)
    /\ UNCHANGED <<ndebug, fault, others>>

vfsFileClose(h) ==
    /\ Running
    /\ IsOpen(h)
    /\ \E r \in {vfsFileCloseResult(vfs, handles[h])} :
       /\ fault' = r.fault
       /\ vfs' = r.v
       /\ handles' = IF r.fault = "none"
                     THEN RenumberFiles([handles EXCEPT ![h] = NoFile], r.freed)
                     ELSE handles
       /\ ret' = Call("vfsFileClose",
                      [h |-> h, filename |-> Content(h).filename, flags |-> handles[h].flags],
                      r.rc, NULL)
    /\ UNCHANGED <<ndebug, others>>

vfsDelete(filename) ==
    /\ Running
    /\ \E r \in {vfsDeleteContent(vfs, filename)} :
       /\ vfs' = r.v
       /\ handles' = RenumberFiles(handles, r.freed)
       /\ ret' = Call("vfsDelete", [filename |-> filename], r.rc, NULL)
    /\ UNCHANGED <<ndebug, fault, others>>

vfsAccessResult(v, filename) == IF vfsContentLookup(v, filename) = 0 THEN 0 ELSE 1

vfsAccess(filename) ==
    /\ Running
    /\ ret' = Call("vfsAccess", [filename |-> filename], "SQLITE_OK",
                   vfsAccessResult(vfs, filename))
    /\ UNCHANGED <<vfs, handles, ndebug, fault, others>>

vfsGetLastError(v) == v.error

IsDatabase(h) == IsOpen(h) /\ Content(h).type = "VFS__DATABASE"

ShmLockFlags ==
    { {"SQLITE_SHM_LOCK", "SQLITE_SHM_SHARED"},
      {"SQLITE_SHM_LOCK", "SQLITE_SHM_EXCLUSIVE"},
      {"SQLITE_SHM_UNLOCK", "SQLITE_SHM_SHARED"},
      {"SQLITE_SHM_UNLOCK", "SQLITE_SHM_EXCLUSIVE"} }

vfsFileShmLock(h, ofst, n, flags) ==
    /\ Running
    /\ IsDatabase(h)
    /\ ofst >= 0 /\ ofst + n <= SQLITE_SHM_NLOCK
    /\ n >= 1
    /\ n = 1 \/ "SQLITE_SHM_EXCLUSIVE" \in flags
    /\ flags = {"SQLITE_SHM_LOCK", "SQLITE_SHM_SHARED"}
          => \A i \in LockRange(ofst, n) : Content(h).shm.shared[i] < MaxShared
    /\ \E r \in {vfsFileShmLockResult(Content(h).shm, ofst, n, flags)} :
       /\ fault' = r.fault
       /\ vfs' = Store(vfs, handles[h].content, [Content(h) EXCEPT !.shm = r.shm])
       /\ ret' = Call("vfsFileShmLock", [h |-> h, ofst |-> ofst, n |-> n, flags |-> flags],
                      r.rc, NULL)
    /\ UNCHANGED <<handles, ndebug, others>>

RegionSizes == {32768}

vfsFileShmMap(h, region_index, region_size, extend) ==
    /\ Running
    /\ IsDatabase(h)
    /\ regions_len(Content(h).shm) < MaxRegions \/ region_index < regions_len(Content(h).shm)
          \/ ~extend
    /\ \E r \in {vfsFileShmMapResult(Content(h).shm, region_index, region_size, extend)} :
       /\ fault' = r.fault
       /\ vfs' = Store(vfs, handles[h].content, [Content(h) EXCEPT !.shm = r.shm])
       /\ ret' = Call("vfsFileShmMap",
                      [h |-> h, region_index |-> region_index, extend |-> extend],
                      r.rc, r.out)
    /\ UNCHANGED <<handles, ndebug, others>>

vfsFileShmUnmap(h, delete_flag) ==
    /\ Running
    /\ IsDatabase(h)
    /\ ret' = Call("vfsFileShmUnmap", [h |-> h], "SQLITE_OK", NULL)
    /\ UNCHANGED <<vfs, handles, ndebug, fault, others>>

(***************************************************************************)
(* Callers that keep track of their locks, as the engine's connections do: *)
(* a caller releases only what it took through its handle, takes a lock it *)
(* holds at most once, and closes its handle when it holds nothing.        *)
(***************************************************************************)
NoLocks == [shared |-> {}, exclusive |-> {}]

\* held after the call of handle h returned rc.
HeldAfter(h, ofst, n, flags, rc) ==
    LET kind == IF "SQLITE_SHM_SHARED" \in flags THEN "shared" ELSE "exclusive" IN
    IF rc # "SQLITE_OK" THEN held
    ELSE IF "SQLITE_SHM_UNLOCK" \in flags
    THEN [held EXCEPT ![h][kind] = @ \ LockRange(ofst, n)]
    ELSE [held EXCEPT ![h][kind] = @ \cup LockRange(ofst, n)]

\* vfsFileShmLock called by a caller that takes a shared lock it holds at
\* most once.
vfsFileShmLockTracked(h, ofst, n, flags) ==
    /\ Running
    /\ IsDatabase(h)
    /\ ofst >= 0 /\ ofst + n <= SQLITE_SHM_NLOCK
    /\ n >= 1
    /\ n = 1 \/ "SQLITE_SHM_EXCLUSIVE" \in flags
    /\ flags = {"SQLITE_SHM_LOCK", "SQLITE_SHM_SHARED"}
          => LockRange(ofst, n) \cap held[h].shared = {}
    /\ \E r \in {vfsFileShmLockResult(Content(h).shm, ofst, n, flags)} :
       /\ fault' = r.fault
       /\ vfs' = Store(vfs, handles[h].content, [Content(h) EXCEPT !.shm = r.shm])
       /\ ret' = Call("vfsFileShmLock", [h |-> h, ofst |-> ofst, n |-> n, flags |-> flags],
                      r.rc, NULL)
       /\ held' = IF r.fault = "none" THEN HeldAfter(h, ofst, n, flags, r.rc) ELSE held
    /\ UNCHANGED <<handles, ndebug, registry, items, gateway, flushing>>

\* vfsFileShmLock called by a caller that releases only what it holds.
vfsFileShmLockOwned(h, ofst, n, flags) ==
    /\ flags = {"SQLITE_SHM_UNLOCK", "SQLITE_SHM_SHARED"}
          => LockRange(ofst, n) \subseteq held[h].shared
    /\ flags = {"SQLITE_SHM_UNLOCK", "SQLITE_SHM_EXCLUSIVE"}
          => LockRange(ofst, n) \subseteq held[h].exclusive
    /\ vfsFileShmLockTracked(h, ofst, n, flags)

vfsFileCloseOwned(h) ==
    /\ held[h] = NoLocks
    /\ vfsFileClose(h)

(***************************************************************************)
(* The generic registry, REGISTRY(test_registry, testItem): a buffer of    *)
(* item pointers indexed by item ID, its length and its capacity.  buf     *)
(* holds the len slots in use; a slot is NULL or the address of an item.   *)
(* The status 0 is written SQLITE_OK.                                      *)
(***************************************************************************)
\* The addresses the allocator hands out, and that of an item object of the
\* caller (a copy, never registered).
Addrs == 1 .. (MaxItems + 1)
CloneAddr == MaxItems + 2
NotAllocated == 0 - 1

test_registry_init == [buf |-> <<>>, len |-> 0, cap |-> 0]

\* The first unallocated slot, r.len when there is none.
RECURSIVE registryFreeSlot(_, _)
registryFreeSlot(r, i) ==
    IF i >= r.len THEN r.len
    ELSE IF r.buf[i + 1] = NULL THEN i
    ELSE registryFreeSlot(r, i + 1)

\* Variant: a new item takes the slot after the last one.
test_registry_add_AtEnd(r, its, addr) ==
    LET i == r.len
        cap == IF r.len + 1 > r.cap THEN (IF r.cap = 0 THEN 1 ELSE r.cap * 2) ELSE r.cap
        r1 == [buf |-> Append(r.buf, addr), len |-> r.len + 1, cap |-> cap]
    IN [registry |-> r1, items |-> [its EXCEPT ![addr] = i], rc |-> "SQLITE_OK", out |-> addr]

\* add: the item allocated at addr is registered in the first free slot and
\* takes the slot's index as ID; the buffer doubles when it is full.
test_registry_add(r, its, addr) ==
    LET i == registryFreeSlot(r, 0)
        grow == i = r.len
        cap == IF grow /\ r.len + 1 > r.cap
               THEN (IF r.cap = 0 THEN 1 ELSE r.cap * 2)
               ELSE r.cap
        r1 == IF grow
              THEN [buf |-> Append(r.buf, addr), len |-> r.len + 1, cap |-> cap]
              ELSE [r EXCEPT !.buf[i + 1] = addr]
    IN [registry |-> r1, items |-> [its EXCEPT ![addr] = i], rc |-> "SQLITE_OK", out |-> addr]

\* get: the item registered with the ID, NULL when there is none.
test_registry_get(r, id) == IF id >= r.len THEN NULL ELSE r.buf[id + 1]

\* del: item is [addr, id].  The slot of the item is cleared and the item
\* freed; the length drops by one when the slot was the last, and the
\* capacity is halved when less than half of it is in use.
test_registry_del(r, its, item) ==
    IF item.id >= r.len \/ r.buf[item.id + 1] # item.addr
    THEN [registry |-> r, items |-> its, rc |-> "DQLITE_NOTFOUND", out |-> NULL]
    ELSE LET len == IF item.id = r.len - 1 THEN r.len - 1 ELSE r.len
             cap == IF len < r.cap \div 2 THEN r.cap \div 2 ELSE r.cap
             buf == SubSeq([r.buf EXCEPT ![item.id + 1] = NULL], 1, len)
         IN [registry |-> [buf |-> buf, len |-> len, cap |-> cap],
             items |-> [its EXCEPT ![item.addr] = NotAllocated],
             rc |-> "SQLITE_OK", out |-> NULL]

\* The item pointers a caller can pass: the items it was given, and copies
\* carrying any ID.
ItemArgs ==
    {[addr |-> a, id |-> items[a]] : a \in {b \in Addrs : items[b] # NotAllocated}}
       \cup {[addr |-> CloneAddr, id |-> id] : id \in 0 .. MaxItems}

RegistryAdd ==
    /\ Running
    /\ registryFreeSlot(registry, 0) < MaxItems
    /\ \E addr \in {a \in Addrs : items[a] = NotAllocated} :
       \E r \in {test_registry_add(registry, items, addr)} :
          /\ registry' = r.registry
          /\ items' = r.items
          /\ ret' = Call("test_registry_add", <<>>, r.rc, r.out)
    /\ UNCHANGED <<vfs, handles, ndebug, fault, held, gateway, flushing>>

RegistryGet ==
    /\ Running
    /\ \E id \in 0 .. MaxItems :
          ret' = Call("test_registry_get", [id |-> id], "SQLITE_OK",
                      test_registry_get(registry, id))
    /\ UNCHANGED <<vfs, handles, ndebug, fault, registry, items, held, gateway, flushing>>

RegistryDel ==
    /\ Running
    /\ \E item \in ItemArgs :
       \E r \in {test_registry_del(registry, items, item)} :
          /\ registry' = r.registry
          /\ items' = r.items
          /\ ret' = Call("test_registry_del", item, r.rc, r.out)
    /\ UNCHANGED <<vfs, handles, ndebug, fault, held, gateway, flushing>>

(***************************************************************************)
(* The gateway: two request contexts (slot 0 for database requests, slot 1 *)
(* for control requests) and the database of the connection.  A pointer is *)
(* <<>> (NULL) or <<x>>.  The database holds its statements: for each      *)
(* statement ID the row batches its cursor has still to yield, NoStmt when *)
(* the ID is not registered.  The calls into the SQL engine and the        *)
(* cluster are the environment: e names the call that fails, if any, and   *)
(* the number of row batches of the result set of the statement bound.     *)
(* The build without DQLITE_EXPERIMENTAL is modelled (no coroutine).       *)
(* Request timestamps, error messages and gateway__exec_sql are not        *)
(* modelled.                                                               *)
(***************************************************************************)
NIL == <<>>
GatewaySlots == {0, 1}
StmtIds == 0 .. (MaxStmts - 1)
NoStmt == 0 - 1

Response(type, code, eof, id, attached) ==
    [type |-> type, code |-> code, eof |-> eof, id |-> id, attached |-> attached]

response_init == Response("none", "", "", 0, FALSE)

gateway__ctx_init ==
    [request |-> NIL, db |-> NIL, stmt |-> NIL, cleanup |-> "GATEWAY__CLEANUP_NONE",
     response |-> response_init]

gateway__init == [ctxs |-> [i \in GatewaySlots |-> gateway__ctx_init], db |-> NIL]

ControlRequests == {"DQLITE_REQUEST_HEARTBEAT", "DQLITE_REQUEST_INTERRUPT"}

\* Variant: a database request is accepted while a control request is in
\* progress.
gateway__ctx_for_NoControlCheck(g, type) ==
    LET idx == IF type \in ControlRequests THEN 1 ELSE 0 IN
    IF g.ctxs[idx].request = NIL THEN idx ELSE 0 - 1

gateway__ctx_for(g, type) ==
    LET idx == IF type \in ControlRequests THEN 1 ELSE 0 IN
    IF type \notin ControlRequests /\ g.ctxs[1].request # NIL THEN 0 - 1
    ELSE IF g.ctxs[idx].request = NIL THEN idx
    ELSE 0 - 1

\* The request of slot i.
Request(g, i) == g.ctxs[i].request[1]

Respond(g, i, response) == [g EXCEPT !.ctxs[i].response = response]

gateway__failure(g, i, code) ==
    Respond(g, i, Response("DQLITE_RESPONSE_FAILURE", code, "", 0, FALSE))

gateway__leader(g, i, e) ==
    IF e.fail = "xLeader" THEN gateway__failure(g, i, "SQLITE_NOMEM")
    ELSE Respond(g, i, Response("DQLITE_RESPONSE_SERVER", "", "", 0, TRUE))

gateway__client(g, i, e) ==
    Respond(g, i, Response("DQLITE_RESPONSE_WELCOME", "", "", 0, FALSE))

gateway__heartbeat(g, i, e) ==
    IF e.fail = "xServers" THEN gateway__failure(g, i, "SQLITE_ERROR")
    ELSE Respond(g, i, Response("DQLITE_RESPONSE_SERVERS", "", "", 0, TRUE))

\* db__init and db__open: a database with ID 0 and no statement.
db__init == [id |-> 0, stmts |-> [sid \in StmtIds |-> NoStmt]]

gateway__open(g, i, e) ==
    IF g.db # NIL THEN gateway__failure(g, i, "SQLITE_BUSY")
    ELSE IF e.fail = "db__open" THEN gateway__failure(g, i, "SQLITE_CANTOPEN")
    ELSE Respond([g EXCEPT !.db = <<db__init>>], i,
                 Response("DQLITE_RESPONSE_DB", "", "", 0, FALSE))

\* GATEWAY__BARRIER, GATEWAY__LOOKUP_DB and GATEWAY__LOOKUP_STMT: the code of
\* the failure they respond with, "" when they pass.
GATEWAY__BARRIER(e) == IF e.fail = "xBarrier" THEN "SQLITE_ERROR" ELSE ""

GATEWAY__LOOKUP_DB(g, ID) ==
    IF g.db = NIL \/ g.db[1].id # ID THEN "SQLITE_NOTFOUND" ELSE ""

db__stmt(db, ID) == IF ID \in StmtIds /\ db.stmts[ID] # NoStmt THEN <<ID>> ELSE NIL

GATEWAY__LOOKUP_STMT(g, ID) ==
    IF db__stmt(g.db[1], ID) = NIL THEN "SQLITE_NOTFOUND" ELSE ""

\* The ID db__prepare gives a new statement: the first one free.
db__free_stmt(db) ==
    IF \E sid \in StmtIds : db.stmts[sid] = NoStmt
    THEN <<CHOOSE sid \in StmtIds :
              db.stmts[sid] = NoStmt /\ \A t \in StmtIds : t < sid => db.stmts[t] # NoStmt>>
    ELSE NIL

SetStmt(g, sid, left) == [g EXCEPT !.db[1].stmts[sid] = left]

db__finalize(g, sid) == SetStmt(g, sid, NoStmt)

gateway__prepare(g, i, e) ==
    LET request == Request(g, i) IN
    IF GATEWAY__BARRIER(e) # "" THEN gateway__failure(g, i, GATEWAY__BARRIER(e))
    ELSE IF GATEWAY__LOOKUP_DB(g, request.db_id) # ""
    THEN gateway__failure(g, i, "SQLITE_NOTFOUND")
    ELSE IF e.fail = "db__prepare" THEN gateway__failure(g, i, "SQLITE_ERROR")
    ELSE LET sid == db__free_stmt(g.db[1])[1] IN
         Respond(SetStmt(g, sid, 0), i, Response("DQLITE_RESPONSE_STMT", "", "", sid, FALSE))

gateway__exec(g, i, e) ==
    LET request == Request(g, i) IN
    IF GATEWAY__BARRIER(e) # "" THEN gateway__failure(g, i, GATEWAY__BARRIER(e))
    ELSE IF GATEWAY__LOOKUP_DB(g, request.db_id) # ""
    THEN gateway__failure(g, i, "SQLITE_NOTFOUND")
    ELSE IF GATEWAY__LOOKUP_STMT(g, request.stmt_id) # ""
    THEN gateway__failure(g, i, "SQLITE_NOTFOUND")
    ELSE IF e.fail = "stmt__bind" THEN gateway__failure(g, i, "SQLITE_ERROR")
    ELSE IF e.fail = "stmt__step"
    THEN gateway__failure(SetStmt(g, request.stmt_id, 0), i, "SQLITE_ERROR")
    ELSE Respond(SetStmt(g, request.stmt_id, 0), i,
                 Response("DQLITE_RESPONSE_RESULT", "", "", 0, FALSE))

\* stmt__query: the status of the step, and the batches left after it.
stmt__query(left, e) ==
    IF e.fail = "stmt__step" THEN [rc |-> "SQLITE_ERROR", left |-> 0]
    ELSE IF left > 1 THEN [rc |-> "SQLITE_ROW", left |-> left - 1]
    ELSE [rc |-> "SQLITE_DONE", left |-> 0]

ClearCtx(g, i) ==
    [g EXCEPT !.ctxs[i].db = NIL, !.ctxs[i].stmt = NIL,
              !.ctxs[i].cleanup = "GATEWAY__CLEANUP_NONE"]

\* gateway__query_batch on the statement sid of the database of the gateway.
gateway__query_batch(g, i, sid, e) ==
    LET q == stmt__query(g.db[1].stmts[sid], e)
        g1 == SetStmt(g, sid, q.left)
        g2 == IF g.ctxs[i].cleanup = "GATEWAY__CLEANUP_FINALIZE"
              THEN db__finalize(g1, sid) ELSE g1
    IN
    IF q.rc \notin {"SQLITE_ROW", "SQLITE_DONE"}
    THEN ClearCtx(gateway__failure(g2, i, q.rc), i)
    ELSE IF q.rc = "SQLITE_ROW"
    THEN [Respond(g1, i, Response("DQLITE_RESPONSE_ROWS", "", "PART", 0, FALSE))
             EXCEPT !.ctxs[i].db = <<g.db[1].id>>, !.ctxs[i].stmt = <<sid>>]
    ELSE ClearCtx(Respond(g2, i, Response("DQLITE_RESPONSE_ROWS", "", "DONE", 0, FALSE)), i)

gateway__query(g, i, e) ==
    LET request == Request(g, i) IN
    IF GATEWAY__BARRIER(e) # "" THEN gateway__failure(g, i, GATEWAY__BARRIER(e))
    ELSE IF GATEWAY__LOOKUP_DB(g, request.db_id) # ""
    THEN gateway__failure(g, i, "SQLITE_NOTFOUND")
    ELSE IF GATEWAY__LOOKUP_STMT(g, request.stmt_id) # ""
    THEN gateway__failure(g, i, "SQLITE_NOTFOUND")
    ELSE IF e.fail = "stmt__bind" THEN gateway__failure(g, i, "SQLITE_ERROR")
    ELSE gateway__query_batch(
            [SetStmt(g, request.stmt_id, e.batches)
                EXCEPT !.ctxs[i].cleanup = "GATEWAY__CLEANUP_NONE"],
            i, request.stmt_id, e)

gateway__finalize(g, i, e) ==
    LET request == Request(g, i) IN
    IF GATEWAY__BARRIER(e) # "" THEN gateway__failure(g, i, GATEWAY__BARRIER(e))
    ELSE IF GATEWAY__LOOKUP_DB(g, request.db_id) # ""
    THEN gateway__failure(g, i, "SQLITE_NOTFOUND")
    ELSE IF GATEWAY__LOOKUP_STMT(g, request.stmt_id) # ""
    THEN gateway__failure(g, i, "SQLITE_NOTFOUND")
    ELSE Respond(db__finalize(g, request.stmt_id), i,
                 Response("DQLITE_RESPONSE_EMPTY", "", "", 0, FALSE))

gateway__query_sql(g, i, e) ==
    LET request == Request(g, i) IN
    IF GATEWAY__BARRIER(e) # "" THEN gateway__failure(g, i, GATEWAY__BARRIER(e))
    ELSE IF GATEWAY__LOOKUP_DB(g, request.db_id) # ""
    THEN gateway__failure(g, i, "SQLITE_NOTFOUND")
    ELSE IF e.fail = "db__prepare" THEN gateway__failure(g, i, "SQLITE_ERROR")
    ELSE LET sid == db__free_stmt(g.db[1])[1] IN
         \* the statement stays registered when its binding fails
         IF e.fail = "stmt__bind" THEN gateway__failure(SetStmt(g, sid, 0), i, "SQLITE_ERROR")
         ELSE gateway__query_batch(
                 [SetStmt(g, sid, e.batches)
                     EXCEPT !.ctxs[i].cleanup = "GATEWAY__CLEANUP_FINALIZE"],
                 i, sid, e)

gateway__interrupt(g, i, e) ==
    LET g1 == IF /\ g.ctxs[0].request # NIL
                 /\ g.ctxs[0].cleanup = "GATEWAY__CLEANUP_FINALIZE"
                 /\ g.ctxs[0].stmt # NIL
              THEN db__finalize(g, g.ctxs[0].stmt[1])
              ELSE g
    IN Respond([ClearCtx(g1, 0) EXCEPT !.ctxs[0].request = NIL], i,
               Response("DQLITE_RESPONSE_EMPTY", "", "", 0, FALSE))

\* gateway__dispatch: the handler of the request of slot i; the response is
\* then handed to xFlush.
gateway__dispatch(g, i, e) ==
    LET type == Request(g, i).type IN
    CASE type = "DQLITE_REQUEST_LEADER" -> gateway__leader(g, i, e)
      [] type = "DQLITE_REQUEST_CLIENT" -> gateway__client(g, i, e)
      [] type = "DQLITE_REQUEST_HEARTBEAT" -> gateway__heartbeat(g, i, e)
      [] type = "DQLITE_REQUEST_OPEN" -> gateway__open(g, i, e)
      [] type = "DQLITE_REQUEST_PREPARE" -> gateway__prepare(g, i, e)
      [] type = "DQLITE_REQUEST_EXEC" -> gateway__exec(g, i, e)
      [] type = "DQLITE_REQUEST_QUERY" -> gateway__query(g, i, e)
      [] type = "DQLITE_REQUEST_FINALIZE" -> gateway__finalize(g, i, e)
      [] type = "DQLITE_REQUEST_QUERY_SQL" -> gateway__query_sql(g, i, e)
      [] type = "DQLITE_REQUEST_INTERRUPT" -> gateway__interrupt(g, i, e)
      [] OTHER -> gateway__failure(g, i, "SQLITE_ERROR")

\* The requests of a client: tag tells two requests of a kind apart.
RequestTypes ==
    {"DQLITE_REQUEST_LEADER", "DQLITE_REQUEST_CLIENT", "DQLITE_REQUEST_HEARTBEAT",
     "DQLITE_REQUEST_OPEN", "DQLITE_REQUEST_PREPARE", "DQLITE_REQUEST_EXEC",
     "DQLITE_REQUEST_QUERY", "DQLITE_REQUEST_FINALIZE", "DQLITE_REQUEST_QUERY_SQL",
     "DQLITE_REQUEST_INTERRUPT", "invalid"}

\* The tags of the requests in progress or being flushed.
TagsInUse ==
    UNION {{gateway.ctxs[i].request[k].tag : k \in DOMAIN gateway.ctxs[i].request}
              \cup {flushing[i][k] : k \in DOMAIN flushing[i]} : i \in GatewaySlots}

\* A request names a statement when its type has a statement ID.
RequestStmtIds(type) ==
    IF type \in {"DQLITE_REQUEST_EXEC", "DQLITE_REQUEST_QUERY", "DQLITE_REQUEST_FINALIZE"}
    THEN StmtIds ELSE {0}

\* The requests a client can send next: a new request takes the first tag
\* that is not in use.
Requests ==
    {[type |-> type, tag |-> tag, db_id |-> 0, stmt_id |-> stmt_id] :
        type \in RequestTypes,
        tag \in {t \in 1 .. MaxTag : t \notin TagsInUse
                                        /\ \A u \in 1 .. (t - 1) : u \in TagsInUse},
        stmt_id \in StmtIds}

\* The calls into the engine and the cluster that the handler of a request
\* type makes and that can fail.
Fails(type) ==
    CASE type = "DQLITE_REQUEST_LEADER" -> {"xLeader"}
      [] type = "DQLITE_REQUEST_HEARTBEAT" -> {"xServers"}
      [] type = "DQLITE_REQUEST_OPEN" -> {"db__open"}
      [] type = "DQLITE_REQUEST_PREPARE" -> {"xBarrier", "db__prepare"}
      [] type = "DQLITE_REQUEST_EXEC" -> {"xBarrier", "stmt__bind", "stmt__step"}
      [] type = "DQLITE_REQUEST_QUERY" -> {"xBarrier", "stmt__bind", "stmt__step"}
      [] type = "DQLITE_REQUEST_FINALIZE" -> {"xBarrier"}
      [] type = "DQLITE_REQUEST_QUERY_SQL" ->
            {"xBarrier", "db__prepare", "stmt__bind", "stmt__step"}
      [] OTHER -> {}

\* The outcomes of those calls: one call fails, or none does and the
\* statement bound has a result set of so many row batches.
Envs(type) ==
    {[fail |-> fail, batches |-> 1] : fail \in Fails(type)}
       \cup {[fail |-> "none", batches |-> batches] :
                batches \in IF type \in {"DQLITE_REQUEST_QUERY", "DQLITE_REQUEST_QUERY_SQL"}
                            THEN 1 .. MaxBatches ELSE {1}}

\* The outcomes of the step of a statement.
StepEnvs == {[fail |-> fail, batches |-> 1] : fail \in {"none", "stmt__step"}}

gateway__handle(request, e) ==
    LET i == gateway__ctx_for(gateway, request.type) IN
    /\ Running
    /\ request.stmt_id \in RequestStmtIds(request.type)
    /\ i # 0 - 1 => Len(flushing[i]) < MaxFlushing
    \* a statement is prepared only while an ID is free
    /\ (request.type \in {"DQLITE_REQUEST_PREPARE", "DQLITE_REQUEST_QUERY_SQL"}
          /\ gateway.db # NIL) => db__free_stmt(gateway.db[1]) # NIL
    /\ IF i = 0 - 1
       THEN /\ ret' = Call("gateway__handle", request, "DQLITE_PROTO", i)
            /\ UNCHANGED <<gateway, flushing>>
       ELSE /\ gateway' = gateway__dispatch(
                             [gateway EXCEPT !.ctxs[i].request = <<request>>], i, e)
            /\ flushing' = [flushing EXCEPT ![i] = Append(@, request.tag)]
            /\ ret' = Call("gateway__handle", request, "SQLITE_OK", i)
    /\ UNCHANGED <<vfs, handles, ndebug, fault, registry, items, held>>

\* reset_response on a response whose attached data was freed already:
\* an assertion fails; without assertions free(NULL) does nothing for a
\* server address, and the list of servers is read through NULL.
reset_response_fault(r) ==
    IF r.type \in {"DQLITE_RESPONSE_SERVER", "DQLITE_RESPONSE_SERVERS"} /\ ~r.attached
    THEN IF ~ndebug THEN "assert"
         ELSE IF r.type = "DQLITE_RESPONSE_SERVERS" THEN "ub" ELSE "none"
    ELSE "none"

\* gateway__flushed with the response of slot i: the response is reset;
\* a context with a statement steps it again and flushes the next batch, a
\* context without drops its request.
gateway__flushed(i, e) ==
    LET ctx == gateway.ctxs[i]
        g1 == [gateway EXCEPT !.ctxs[i].response.attached = FALSE]
        ft == reset_response_fault(ctx.response)
    IN
    /\ Running
    /\ flushing[i] # <<>>
    /\ fault' = ft
    /\ IF ft # "none" THEN UNCHANGED <<gateway, flushing>>
       ELSE IF ctx.stmt # NIL
       THEN /\ gateway' = gateway__query_batch(g1, i, ctx.stmt[1], e)
            /\ flushing' = [flushing EXCEPT ![i] = Append(Tail(@), Request(gateway, i).tag)]
       ELSE /\ gateway' = [g1 EXCEPT !.ctxs[i].request = NIL]
            /\ flushing' = [flushing EXCEPT ![i] = Tail(@)]
    /\ ret' = Call("gateway__flushed", [slot |-> i, tag |-> Head(flushing[i])], "SQLITE_OK", i)
    /\ UNCHANGED <<vfs, handles, ndebug, registry, items, held>>

(***************************************************************************)
(* maybe_checkpoint, the WAL hook of the gateway, on the database file of  *)
(* the connection (handle h) after a commit that left pages frames in the  *)
(* WAL.  threshold is g->options->checkpoint_threshold.  out tells whether *)
(* g->cluster->xCheckpoint was invoked, whose outcome is ignored.          *)
(***************************************************************************)
RECURSIVE maybe_checkpoint_probe_KeepLock(_, _)
\* Variant: the lock taken by a probe is not released.
maybe_checkpoint_probe_KeepLock(s, i) ==
    IF i = SQLITE_SHM_NLOCK THEN [shm |-> s, rc |-> "SQLITE_OK", fault |-> "none"]
    ELSE LET l == vfsFileShmLockResult(s, i, 1, {"SQLITE_SHM_LOCK", "SQLITE_SHM_EXCLUSIVE"})
         IN
         IF l.fault # "none" \/ l.rc = "SQLITE_BUSY" THEN l
         ELSE maybe_checkpoint_probe_KeepLock(l.shm, i + 1)

RECURSIVE maybe_checkpoint_probe(_, _)
\* The loop over the lock slots from slot i on: rc is SQLITE_BUSY when a
\* probe found a slot locked.
maybe_checkpoint_probe(s, i) ==
    IF i = SQLITE_SHM_NLOCK THEN [shm |-> s, rc |-> "SQLITE_OK", fault |-> "none"]
    ELSE LET l == vfsFileShmLockResult(s, i, 1, {"SQLITE_SHM_LOCK", "SQLITE_SHM_EXCLUSIVE"})
             u == vfsFileShmLockResult(l.shm, i, 1,
                                       {"SQLITE_SHM_UNLOCK", "SQLITE_SHM_EXCLUSIVE"})
         IN
         IF l.fault # "none" \/ l.rc = "SQLITE_BUSY" THEN l
         ELSE IF u.fault # "none" THEN u
         ELSE maybe_checkpoint_probe(u.shm, i + 1)

maybe_checkpointResult(s, pages, threshold) ==
    LET m == vfsFileShmMapResult(s, 0, 0, FALSE)
        p == maybe_checkpoint_probe(m.shm, 0)
    IN
    IF pages < threshold
    THEN [shm |-> s, rc |-> "SQLITE_OK", fault |-> "none", out |-> "none"]
    \* the WAL index header is read through the region returned: NULL when
    \* no region is mapped, a pointer never set when the first one was skipped
    ELSE IF regions_len(m.shm) = 0 \/ m.out = UninitRegion
    THEN [shm |-> s, rc |-> "SQLITE_OK", fault |-> "ub", out |-> "none"]
    ELSE IF p.fault # "none"
    THEN [shm |-> s, rc |-> "SQLITE_OK", fault |-> p.fault, out |-> "none"]
    ELSE [shm |-> p.shm, rc |-> "SQLITE_OK", fault |-> "none",
          out |-> IF p.rc = "SQLITE_BUSY" THEN "none" ELSE "xCheckpoint"]

maybe_checkpoint(h, pages, threshold) ==
    /\ Running
    /\ IsDatabase(h)
    /\ \E r \in {maybe_checkpointResult(Content(h).shm, pages, threshold)} :
       /\ fault' = r.fault
       /\ vfs' = Store(vfs, handles[h].content, [Content(h) EXCEPT !.shm = r.shm])
       /\ ret' = Call("maybe_checkpoint",
                      [h |-> h, pages |-> pages, threshold |-> threshold], r.rc, r.out)
    /\ UNCHANGED <<handles, ndebug, others>>

(***************************************************************************)
(* internal/store: Replay.  The log store holds the entries first .. last  *)
(* (none when last < first); the snapshot store lists its snapshots most   *)
(* recent first, each known by its index.  The stores and the FSM are the  *)
(* environment: fail names the call that returns an error, if any, and     *)
(* failAt the log entry whose retrieval fails.  DefaultRange and Iterate   *)
(* are not part of the sources at hand: DefaultRange yields the range of   *)
(* the entries stored, Iterate hands the entries of a range to its         *)
(* callback in order and stops at the first error.                         *)
(***************************************************************************)
LogIndexes == 1 .. MaxLogIndex

DefaultRange(logs, fail) ==
    IF fail = "DefaultRange"
    THEN [r |-> [First |-> 0, Last |-> 0], err |-> "DefaultRange"]
    ELSE [r |-> [First |-> logs.first, Last |-> logs.last], err |-> "nil"]

RECURSIVE Iterate(_, _, _, _)
\* The entries handed to the callback after applied, and the error returned.
Iterate(r, fail, failAt, applied) ==
    IF r.First > r.Last THEN [applied |-> applied, err |-> "nil"]
    ELSE IF fail = "Iterate" /\ failAt = r.First THEN [applied |-> applied, err |-> "Iterate"]
    ELSE Iterate([r EXCEPT !.First = @ + 1], fail, failAt, Append(applied, r.First))

\* Replay: the error returned, the snapshot restored into the FSM (none: <<>>)
\* and the indexes of the entries applied to it, in order.
Replay(logs, metas, fail, failAt) ==
    LET d == DefaultRange(logs, fail)
        r == IF Len(metas) > 0 THEN [d.r EXCEPT !.First = metas[1] + 1] ELSE d.r
        restored == IF Len(metas) > 0 THEN <<metas[1]>> ELSE <<>>
        it == Iterate(r, fail, failAt, <<>>)
    IN
    IF d.err # "nil"
    THEN [err |-> "failed to get index range", restored |-> <<>>, applied |-> <<>>]
    ELSE IF fail = "List"
    THEN [err |-> "failed to get snapshots list", restored |-> <<>>, applied |-> <<>>]
    ELSE IF Len(metas) > 0 /\ fail = "Open"
    THEN [err |-> "failed to open snapshot", restored |-> <<>>, applied |-> <<>>]
    ELSE IF Len(metas) > 0 /\ fail = "Restore"
    THEN [err |-> "failed to restore snapshot", restored |-> <<>>, applied |-> <<>>]
    \* the error of Iterate is wrapped and the wrapped error dropped
    ELSE [err |-> "nil", restored |-> restored, applied |-> it.applied]

\* The log stores: entries first .. last.
LogStores == {[first |-> first, last |-> last] :
                 first \in 1 .. 2, last \in 0 .. MaxLogIndex}

\* The snapshot stores: at most two snapshots, the most recent first.
SnapshotStores ==
    {<<>>} \cup {<<i>> : i \in LogIndexes}
           \cup {<<i, j>> : i \in LogIndexes, j \in 1 .. MaxLogIndex - 1}

ReplayFails == {"none", "DefaultRange", "List", "Open", "Restore", "Iterate"}

ReplayCall(logs, metas, fail, failAt) ==
    /\ Running
    /\ Len(metas) = 2 => metas[2] < metas[1]
    /\ fail # "Iterate" => failAt = 1
    /\ \E r \in {Replay(logs, metas, fail, failAt)} :
          ret' = Call("Replay",
                      [logs |-> logs, metas |-> metas, fail |-> fail, failAt |-> failAt],
                      r.err, [restored |-> r.restored, applied |-> r.applied])
    /\ UNCHANGED <<vfs, handles, ndebug, fault, others>>

(***************************************************************************)
(* Initial state: VfsInit has run.  vfsCreate leaves v->error unset: its   *)
(* first value is indeterminate, written "unset".                          *)
(***************************************************************************)
vfsCreate(e) == [contents |-> <<>>, error |-> e]

Init ==
    /\ vfs = vfsCreate("unset")
    /\ handles = [h \in Handles |-> NoFile]
    /\ ret = Call("VfsInit", <<>>, "SQLITE_OK", NULL)
    /\ ndebug \in BOOLEAN
    /\ fault = "none"
    /\ registry = test_registry_init
    /\ items = [a \in Addrs |-> NotAllocated]
    /\ held = [h \in Handles |-> NoLocks]
    /\ gateway = gateway__init
    /\ flushing = [i \in GatewaySlots |-> <<>>]

(***************************************************************************)
(* SpecShm: the shared memory of one database, through several handles.    *)
(***************************************************************************)
OpenDb == \E h \in ShmHandles :
    vfsOpen(h, "db", {"SQLITE_OPEN_MAIN_DB", "SQLITE_OPEN_CREATE"}, "none")

Close == \E h \in ShmHandles : vfsFileClose(h)

ShmLock == \E h \in ShmHandles, ofst \in 0 .. MaxSlot, flags \in ShmLockFlags :
    \E n \in 1 .. (MaxSlot - ofst + 1) : vfsFileShmLock(h, ofst, n, flags)

ShmMap == \E h \in ShmHandles, region_index \in 0 .. MaxRegions, extend \in BOOLEAN :
    \E region_size \in RegionSizes : vfsFileShmMap(h, region_index, region_size, extend)

ShmUnmap == \E h \in ShmHandles : vfsFileShmUnmap(h, 0)

NextShm == OpenDb \/ Close \/ ShmLock \/ ShmMap \/ ShmUnmap

SpecShm == Init /\ [][NextShm]_vars

(***************************************************************************)
(* File images handed to the bulk import: a database image is its pages, a *)
(* WAL image is the WAL header followed by frames.  An image is named by   *)
(* [type, page_size, n, ok]; ok = FALSE stores 0 as the page size.         *)
(***************************************************************************)
MaxPages == 1
MaxRefcount == 2

PageSizes == {512}

\* The page-size field of a header: 1 stands for 65536.
PageSizeField(img) ==
    IF ~img.ok THEN 0
    ELSE IF img.page_size = FORMAT__PAGE_SIZE_MAX THEN 1 ELSE img.page_size

DbPage(img, pgno) ==
    IF pgno = 1
    THEN BCat(BCat(Run(161, 16),
                   BOf(<<PageSizeField(img) \div 256, PageSizeField(img) % 256>>)),
              Run(161, img.page_size - 18))
    ELSE Run(160 + pgno, img.page_size)

WalHdr(img) ==
    BCat(BOf(<<55, 127, 6, 130, 0, 45, 226, 24,
               0, PageSizeField(img) \div 65536,
               (PageSizeField(img) \div 256) % 256, PageSizeField(img) % 256>>),
         Run(7, FORMAT__WAL_HDR_SIZE - 12))

WalFrameHdr(img, pgno) ==
    BCat(BOf(<<0, 0, 0, pgno>>), Run(200 + pgno, FORMAT__WAL_FRAME_HDR_SIZE - 4))

WalFramePage(img, pgno) == Run(176 + pgno, img.page_size)

RECURSIVE ImagePages(_, _)
ImagePages(img, pgno) ==
    IF pgno > img.n THEN <<>>
    ELSE BCat(IF img.type = "FORMAT__WAL"
              THEN BCat(WalFrameHdr(img, pgno), WalFramePage(img, pgno))
              ELSE DbPage(img, pgno),
              ImagePages(img, pgno + 1))

ImageBytes(img) ==
    BCat(IF img.type = "FORMAT__WAL" THEN WalHdr(img) ELSE <<>>, ImagePages(img, 1))

Images(type) ==
    {[type |-> type, page_size |-> ps, n |-> n, ok |-> ok] :
        ps \in PageSizes, n \in 1 .. MaxPages, ok \in BOOLEAN}

VfsFileRead(filename) ==
    /\ Running
    /\ \E r \in {VfsFileReadResult(vfs, filename)} :
       /\ fault' = r.fault
       /\ vfs' = IF r.fault = "none" THEN r.v ELSE vfs
       /\ ret' = Call("VfsFileRead", [filename |-> filename], r.rc, r.buf)
    /\ UNCHANGED <<handles, ndebug, others>>

VfsFileWrite(filename, img) ==
    /\ Running
    /\ vfsContentLookup(vfs, filename) # 0
          => vfs.contents[vfsContentLookup(vfs, filename)].refcount < MaxRefcount
    /\ \E buf \in {ImageBytes(img)} :
       \E r \in {VfsFileWriteResult(vfs, filename, buf, BLen(buf))} :
       /\ fault' = r.fault
       /\ vfs' = IF r.fault = "none" THEN r.v ELSE vfs
       /\ ret' = Call("VfsFileWrite", [filename |-> filename, img |-> img], r.rc, NULL)
    /\ UNCHANGED <<handles, ndebug, others>>

(***************************************************************************)
(* SpecReg: the registry of files: open, close, delete, access, export     *)
(* and import on a database and its WAL.                                   *)
(***************************************************************************)
Open == \E h \in RegHandles, filename \in RegFilenames :
    \E flags \in OpenFlags(filename) : vfsOpen(h, filename, flags, "none")

\* An open during which an allocation fails.
OpenNoMem == \E h \in RegHandles, filename \in RegFilenames, oom \in Ooms \ {"none"} :
    vfsOpen(h, filename, {TypeFlag(filename), "SQLITE_OPEN_CREATE"}, oom)

CloseReg == \E h \in RegHandles : vfsFileClose(h)

Delete == \E filename \in RegFilenames : vfsDelete(filename)

Access == \E filename \in RegFilenames : vfsAccess(filename)

Export == \E filename \in RegFilenames : VfsFileRead(filename)

Import == \E filename \in RegFilenames :
    \E img \in Images(vfsGuessFileType(filename)) : VfsFileWrite(filename, img)

NextReg == Open \/ OpenNoMem \/ CloseReg \/ Delete \/ Access \/ Export \/ Import

SpecReg == Init /\ [][NextReg]_vars

(***************************************************************************)
(* SpecBulk: the same calls on a database and its rollback journal.        *)
(***************************************************************************)
OpenBulk == \E h \in RegHandles, filename \in BulkFilenames :
    \E flags \in OpenFlags(filename) : vfsOpen(h, filename, flags, "none")

DeleteBulk == \E filename \in BulkFilenames : vfsDelete(filename)

AccessBulk == \E filename \in BulkFilenames : vfsAccess(filename)

ExportBulk == \E filename \in BulkFilenames : VfsFileRead(filename)

ImportBulk == \E filename \in BulkFilenames :
    \E img \in Images(vfsGuessFileType(filename)) : VfsFileWrite(filename, img)

NextBulk == OpenBulk \/ CloseReg \/ DeleteBulk \/ AccessBulk \/ ExportBulk \/ ImportBulk

SpecBulk == Init /\ [][NextBulk]_vars

(***************************************************************************)
(* The I/O methods of an open handle.                                      *)
(***************************************************************************)
MaxIoHandles == 1
MaxDbPages == 2
MaxFrames == 1

IoHandles == 1 .. MaxIoHandles

\* The number of pages the exploration lets a file grow to.
PageCap(c) == IF c.type = "VFS__WAL" THEN MaxFrames ELSE MaxDbPages

vfsFileRead(h, amount, offset) ==
    /\ Running
    /\ IsOpen(h)
    /\ \E r \in {vfsFileReadResult(vfs, handles[h], amount, offset)} :
       /\ fault' = r.fault
       /\ vfs' = IF r.fault = "none" THEN r.v ELSE vfs
       /\ ret' = Call("vfsFileRead", [h |-> h, amount |-> amount, offset |-> offset],
                      r.rc, r.out)
    /\ UNCHANGED <<handles, ndebug, others>>

vfsFileWrite(h, buf, amount, offset) ==
    /\ Running
    /\ IsOpen(h)
    /\ \E r \in {vfsFileWriteResult(vfs, handles[h], buf, amount, offset)} :
       /\ n_pages(Deref(r.v, handles[h].content)) <= PageCap(Content(h))
       /\ fault' = r.fault
       /\ vfs' = IF r.fault = "none" THEN r.v ELSE vfs
       /\ ret' = Call("vfsFileWrite",
                      [h |-> h, buf |-> buf, amount |-> amount, offset |-> offset],
                      r.rc, NULL)
    /\ UNCHANGED <<handles, ndebug, others>>

vfsFileTruncate(h, size) ==
    /\ Running
    /\ IsOpen(h)
    /\ \E r \in {vfsFileTruncateResult(vfs, handles[h], size)} :
       /\ fault' = r.fault
       /\ vfs' = IF r.fault = "none" THEN r.v ELSE vfs
       /\ ret' = Call("vfsFileTruncate", [h |-> h, size |-> size], r.rc, NULL)
    /\ UNCHANGED <<handles, ndebug, others>>

vfsFileSize(h) ==
    /\ Running
    /\ IsOpen(h)
    /\ ret' = Call("vfsFileSize", [h |-> h], "SQLITE_OK", vfsFileSizeResult(Content(h)))
    /\ UNCHANGED <<vfs, handles, ndebug, fault, others>>

vfsFileControl(h, op, arg) ==
    /\ Running
    /\ IsOpen(h)
    /\ \E r \in {vfsFileControlResult(vfs, handles[h], op, arg)} :
       /\ vfs' = r.v
       /\ ret' = Call("vfsFileControl", [h |-> h, op |-> op, arg |-> arg], r.rc, r.out)
    /\ UNCHANGED <<handles, ndebug, fault, others>>

(***************************************************************************)
(* What the engine passes to the I/O methods.  Buffers are whole pages of  *)
(* one of IoPageSizes, filled with one byte of Fills; the first page of a  *)
(* database carries the page size in its header.                           *)
(***************************************************************************)
IoPageSizes == {512, 1024}
Fills == {65, 66}

IoOpenFlags(filename) == {TypeFlag(filename), "SQLITE_OPEN_CREATE"}

\* A database page: with hdr its bytes 16 and 17 hold the page size.
IoDbPage(page_size, hdr, fill) ==
    IF hdr
    THEN BCat(BCat(Run(fill, 16), BOf(<<page_size \div 256, page_size % 256>>)),
              Run(fill, page_size - 18))
    ELSE Run(fill, page_size)

IoImg(page_size, ok) == [page_size |-> page_size, ok |-> ok]

\* A frame header: the page number, then salts and checksums that differ.
IoFrameHdr(pgno) ==
    BCat(BOf(<<0, 0, 0, pgno>>),
         BCat(Run(200 + pgno, 12),
              BCat(Run(100 + pgno, 4), Run(150 + pgno, 4))))

\* Offset of the frame pgno of a WAL of the given page size.
FrameOffset(page_size, pgno) ==
    FORMAT__WAL_HDR_SIZE + (pgno - 1) * (FORMAT__WAL_FRAME_HDR_SIZE + page_size)

IsWal(h) == IsOpen(h) /\ Content(h).type = "VFS__WAL"

\* SQLITE_FCNTL_PRAGMA is sent to the handle of the main database file.
Pragmas ==
    {[left |-> "page_size", right |-> <<n>>] : n \in IoPageSizes \cup {1000}}
    \cup {[left |-> "page_size", right |-> <<>>]}
    \cup {[left |-> "journal_mode", right |-> <<m>>] : m \in {"wal", "delete"}}

OpenIo(filenames) == \E h \in IoHandles, filename \in filenames :
    vfsOpen(h, filename, IoOpenFlags(filename), "none")

CloseIo == \E h \in IoHandles : vfsFileClose(h)

TruncateIo == \E h \in IoHandles, page_size \in IoPageSizes, n \in 0 .. MaxDbPages :
    vfsFileTruncate(h, n * page_size)

SizeIo == \E h \in IoHandles : vfsFileSize(h)

PragmaIo == \E h \in IoHandles, arg \in Pragmas :
    IsDatabase(h) /\ vfsFileControl(h, "SQLITE_FCNTL_PRAGMA", arg)

\* Any other file-control opcode.
ControlIo == \E h \in IoHandles :
    vfsFileControl(h, "SQLITE_FCNTL_OTHER", [left |-> "", right |-> <<>>])

(***************************************************************************)
(* SpecDb: the pages of a database, next to its rollback journal.          *)
(***************************************************************************)
DbFilenames == {"db", "db-journal"}

OpenD == OpenIo(DbFilenames)

DeleteD == \E filename \in DbFilenames : vfsDelete(filename)

WriteD == \E h \in IoHandles, page_size \in IoPageSizes, fill \in Fills :
    \E pgno \in 1 .. (MaxDbPages + 1), hdr \in BOOLEAN :
        /\ hdr => pgno = 1
        /\ vfsFileWrite(h, IoDbPage(page_size, hdr, fill), page_size, (pgno - 1) * page_size)

ReadD == \E h \in IoHandles, page_size \in IoPageSizes :
    \/ \E pgno \in 1 .. (MaxDbPages + 1) : vfsFileRead(h, page_size, (pgno - 1) * page_size)
    \/ vfsFileRead(h, FORMAT__DB_HDR_SIZE, 0)
    \/ vfsFileRead(h, 16, 24)

NextDb ==
    OpenD \/ CloseIo \/ DeleteD \/ WriteD \/ ReadD \/ TruncateIo \/ SizeIo \/ PragmaIo
    \/ ControlIo

SpecDb == Init /\ [][NextDb]_vars

(***************************************************************************)
(* SpecWal: a WAL and its database.  The database is written one page, the *)
(* WAL its header and frames.                                              *)
(***************************************************************************)
WalFilenames == {"db", "db-wal"}

OpenW == OpenIo(WalFilenames)

DeleteW == \E filename \in WalFilenames : vfsDelete(filename)

WriteDbW == \E h \in IoHandles, page_size \in IoPageSizes :
    /\ IsDatabase(h)
    /\ vfsFileWrite(h, IoDbPage(page_size, TRUE, 65), page_size, 0)

WriteWalHdr == \E h \in IoHandles, page_size \in IoPageSizes, ok \in BOOLEAN :
    /\ IsWal(h)
    /\ vfsFileWrite(h, WalHdr(IoImg(page_size, ok)), FORMAT__WAL_HDR_SIZE, 0)

WriteFrameHdr == \E h \in IoHandles, page_size \in IoPageSizes :
    \E pgno \in 1 .. (MaxFrames + 1) :
        /\ IsWal(h)
        /\ vfsFileWrite(h, IoFrameHdr(pgno),
                        FORMAT__WAL_FRAME_HDR_SIZE, FrameOffset(page_size, pgno))

WriteFramePage == \E h \in IoHandles, page_size \in IoPageSizes, fill \in Fills :
    \E pgno \in 1 .. (MaxFrames + 1) :
        /\ IsWal(h)
        /\ vfsFileWrite(h, Run(fill, page_size), page_size,
                        FrameOffset(page_size, pgno) + FORMAT__WAL_FRAME_HDR_SIZE)

ReadWalHdr == \E h \in IoHandles :
    /\ IsWal(h)
    /\ \/ vfsFileRead(h, FORMAT__WAL_HDR_SIZE, 0)
       \/ vfsFileRead(h, 8, 24)

ReadFrame == \E h \in IoHandles, page_size \in IoPageSizes :
    \E pgno \in 1 .. (MaxFrames + 1) :
        /\ IsWal(h)
        /\ \/ vfsFileRead(h, FORMAT__WAL_FRAME_HDR_SIZE, FrameOffset(page_size, pgno))
           \/ vfsFileRead(h, 8, FrameOffset(page_size, pgno) + 16)
           \/ vfsFileRead(h, page_size,
                          FrameOffset(page_size, pgno) + FORMAT__WAL_FRAME_HDR_SIZE)
           \/ vfsFileRead(h, FORMAT__WAL_FRAME_HDR_SIZE + page_size,
                          FrameOffset(page_size, pgno))

NextWal ==
    OpenW \/ CloseIo \/ DeleteW \/ WriteDbW \/ WriteWalHdr \/ WriteFrameHdr
    \/ WriteFramePage \/ ReadWalHdr \/ ReadFrame \/ TruncateIo \/ SizeIo \/ PragmaIo

SpecWal == Init /\ [][NextWal]_vars

(***************************************************************************)
(* SpecImage: export and import of a database and its WAL, with images of  *)
(* either page size and of one or two pages.                               *)
(***************************************************************************)
MaxImagePages == 2

IoImages(type) ==
    {[type |-> type, page_size |-> ps, n |-> n, ok |-> ok] :
        ps \in IoPageSizes, n \in 1 .. MaxImagePages, ok \in BOOLEAN}

OpenX == OpenIo(WalFilenames)

DeleteX == \E filename \in WalFilenames : vfsDelete(filename)

ExportX == \E filename \in WalFilenames : VfsFileRead(filename)

ImportX == \E filename \in WalFilenames :
    \E img \in IoImages(vfsGuessFileType(filename)) : VfsFileWrite(filename, img)

NextImage == OpenX \/ CloseIo \/ DeleteX \/ ExportX \/ ImportX

SpecImage == Init /\ [][NextImage]_vars

(***************************************************************************)
(* SpecLock: the locks of one database taken through several handles by    *)
(* callers that keep track of them.                                        *)
(***************************************************************************)
CloseOwned == \E h \in ShmHandles : vfsFileCloseOwned(h)

ShmLockOwned == \E h \in ShmHandles, ofst \in 0 .. MaxSlot, flags \in ShmLockFlags :
    \E n \in 1 .. (MaxSlot - ofst + 1) : vfsFileShmLockOwned(h, ofst, n, flags)

NextLock == OpenDb \/ CloseOwned \/ ShmLockOwned

SpecLock == Init /\ [][NextLock]_vars

(***************************************************************************)
(* SpecLockAny: as SpecLock, with callers that release any lock.           *)
(***************************************************************************)
ShmLockTracked == \E h \in ShmHandles, ofst \in 0 .. MaxSlot, flags \in ShmLockFlags :
    \E n \in 1 .. (MaxSlot - ofst + 1) : vfsFileShmLockTracked(h, ofst, n, flags)

NextLockAny == OpenDb \/ CloseOwned \/ ShmLockTracked

SpecLockAny == Init /\ [][NextLockAny]_vars

(***************************************************************************)
(* SpecGateway: the requests of one connection and the notifications of    *)
(* its flushed responses, in any order.                                    *)
(***************************************************************************)
GatewayHandle == \E request \in Requests :
    \E e \in Envs(request.type) : gateway__handle(request, e)

GatewayFlushed == \E i \in GatewaySlots, e \in StepEnvs : gateway__flushed(i, e)

NextGateway == GatewayHandle \/ GatewayFlushed

SpecGateway == Init /\ [][NextGateway]_vars

(***************************************************************************)
(* SpecRegistry: adds, lookups and deletes on one registry.                *)
(***************************************************************************)
NextRegistry == RegistryAdd \/ RegistryGet \/ RegistryDel

SpecRegistry == Init /\ [][NextRegistry]_vars

(***************************************************************************)
(* Properties of the lock table and the region table (SpecShm).            *)
(***************************************************************************)
Databases(v) == {k \in 1 .. n_contents(v) : v.contents[k].type = "VFS__DATABASE"}

\* The shared memory of the content the call's handle pointed to, before
\* and after the step.
ShmBefore == Deref(vfs, handles[ret'.args.h].content).shm
ShmAfter == Deref(vfs', handles[ret'.args.h].content).shm

IsShmLockCall(r, flags) == r.op = "vfsFileShmLock" /\ r.args.flags = flags

HeldInRange(s, r) ==
    \E i \in LockRange(r.args.ofst, r.args.n) : s.shared[i] > 0 \/ s.exclusive[i] > 0

\* C1: in every reachable state, for every slot of every database's lock
\* table, shared and exclusive are non-negative and never both positive.
C1_LockTableInvariant ==
    \A k \in Databases(vfs) : \A i \in Slots :
        /\ vfs.contents[k].shm.shared[i] >= 0
        /\ vfs.contents[k].shm.exclusive[i] >= 0
        /\ ~(vfs.contents[k].shm.shared[i] > 0 /\ vfs.contents[k].shm.exclusive[i] > 0)

\* C1 witness: a lock table holding a shared lock on one slot and an
\* exclusive lock on another, after lock calls.
C1_Witness ==
    /\ ret.op = "vfsFileShmLock"
    /\ \E k \in Databases(vfs) : \E i, j \in Slots :
          vfs.contents[k].shm.shared[i] > 0 /\ vfs.contents[k].shm.exclusive[j] > 0

\* C2: an exclusive acquire on [o, o+n) returns BUSY and changes no slot
\* when some slot of the range has a positive shared or exclusive count;
\* otherwise it returns OK and sets exclusive to 1 on exactly the range.
C2_AcquireExclusive ==
    [][IsShmLockCall(ret', {"SQLITE_SHM_LOCK", "SQLITE_SHM_EXCLUSIVE"}) =>
        IF HeldInRange(ShmBefore, ret')
        THEN ret'.rc = "SQLITE_BUSY" /\ ShmAfter = ShmBefore
        ELSE /\ ret'.rc = "SQLITE_OK"
             /\ ShmAfter.shared = ShmBefore.shared
             /\ ShmAfter.regions = ShmBefore.regions
             /\ \A i \in Slots :
                   ShmAfter.exclusive[i] =
                      IF i \in LockRange(ret'.args.ofst, ret'.args.n)
                      THEN 1 ELSE ShmBefore.exclusive[i]]_vars

\* C2 witness: an exclusive acquire over two slots was refused although the
\* first slot of its range is free (the second one is held shared); and the
\* first slot is still free.
C2_Witness ==
    /\ IsShmLockCall(ret, {"SQLITE_SHM_LOCK", "SQLITE_SHM_EXCLUSIVE"})
    /\ ret.rc = "SQLITE_BUSY"
    /\ ret.args.n = 2
    /\ LET s == Content(ret.args.h).shm IN
          /\ s.shared[ret.args.ofst] = 0 /\ s.exclusive[ret.args.ofst] = 0
          /\ s.shared[ret.args.ofst + 1] > 0

C4_ShmReleasedAtZero ==
    \A k \in Databases(vfs) :
        vfs.contents[k].refcount = 0 =>
            /\ regions_len(vfs.contents[k].shm) = 0
            /\ \A i \in Slots : /\ vfs.contents[k].shm.shared[i] = 0
                                /\ vfs.contents[k].shm.exclusive[i] = 0

\* C4 witness: the last handle on a database has just been closed and the
\* database is still registered.
C4_Witness ==
    /\ ret.op = "vfsFileClose"
    /\ ret.rc = "SQLITE_OK"
    /\ \E k \in Databases(vfs) : vfs.contents[k].refcount = 0

(***************************************************************************)
(* Properties of the registry (SpecReg, SpecBulk).                         *)
(***************************************************************************)
AllFilenames == RegFilenames \cup BulkFilenames

\* The positions of the contents registered under a name.
Registered(v, name) == {k \in 1 .. n_contents(v) : v.contents[k].filename = name}

InRegistry(v, name) == Registered(v, name) # {}

\* The content registered under a name (when there is one).
Named(v, name) == v.contents[CHOOSE k \in Registered(v, name) : TRUE]

\* The number of handles opened on the content at position k and not closed.
LiveHandles(hs, k) == Cardinality({h \in DOMAIN hs : hs[h].content = k})

\* The same, by name.
LiveHandlesOn(v, hs, name) ==
    Cardinality({h \in DOMAIN hs : hs[h].content \in Registered(v, name)})

IsOpenCall(r) == r.op = "vfsOpen" /\ r.args.oom = "none"

\* C5: for every file in the registry the refcount equals the number of
\* handles successfully opened on it and not yet closed, after any sequence
\* of open, close, delete, export and import calls.
C5_RefcountIsLiveHandles ==
    \A k \in 1 .. n_contents(vfs) : vfs.contents[k].refcount = LiveHandles(handles, k)

\* C6: delete(name) on a registered file with at least one open handle
\* fails (SQLITE_IOERR_DELETE), sets last-error to EBUSY and leaves the
\* registry as it was; with no handle open, delete(name) succeeds and
\* access(name) then reports the file absent.
C6_DeleteBusy ==
    [][(ret'.op = "vfsDelete" /\ InRegistry(vfs, ret'.args.filename)) =>
        IF LiveHandlesOn(vfs, handles, ret'.args.filename) > 0
        THEN /\ ret'.rc = "SQLITE_IOERR_DELETE"
             /\ vfsGetLastError(vfs') = "EBUSY"
             /\ vfs'.contents = vfs.contents
        ELSE /\ ret'.rc = "SQLITE_OK"
             /\ vfsAccessResult(vfs', ret'.args.filename) = 0]_vars

\* C7: a file leaves the registry only (a) at the close of its last handle,
\* when that handle was opened with delete-on-close, or (b) at a delete
\* that finds its refcount 0.  The close of the last handle, when it does
\* not carry delete-on-close, keeps the file with its pages and page size,
\* and the file can be opened again without the create flag.
C7_Lifecycle ==
    [][/\ \A name \in AllFilenames :
            (InRegistry(vfs, name) /\ ~InRegistry(vfs', name)) =>
                \/ /\ ret'.op = "vfsFileClose"
                   /\ ret'.args.filename = name
                   /\ "SQLITE_OPEN_DELETEONCLOSE" \in ret'.args.flags
                   /\ LiveHandlesOn(vfs, handles, name) = 1
                \/ /\ ret'.op = "vfsDelete"
                   /\ ret'.args.filename = name
                   /\ Named(vfs, name).refcount = 0
       /\ (/\ ret'.op = "vfsFileClose"
           /\ fault' = "none"
           /\ "SQLITE_OPEN_DELETEONCLOSE" \notin ret'.args.flags
           /\ LiveHandlesOn(vfs, handles, ret'.args.filename) = 1) =>
                /\ InRegistry(vfs', ret'.args.filename)
                /\ Named(vfs', ret'.args.filename).pages
                      = Named(vfs, ret'.args.filename).pages
                /\ Named(vfs', ret'.args.filename).page_size
                      = Named(vfs, ret'.args.filename).page_size
                /\ vfsOpenResult(vfs', ret'.args.filename,
                                 {TypeFlag(ret'.args.filename)}, "none").rc = "SQLITE_OK"
      ]_vars

\* C7 witness: the last handle of a file that holds a page has just been
\* closed, without delete-on-close, and the file is still registered.
C7_Witness ==
    /\ ret.op = "vfsFileClose"
    /\ ret.rc = "SQLITE_OK"
    /\ "SQLITE_OPEN_DELETEONCLOSE" \notin ret.args.flags
    /\ InRegistry(vfs, ret.args.filename)
    /\ Named(vfs, ret.args.filename).refcount = 0
    /\ n_pages(Named(vfs, ret.args.filename)) > 0

\* The open of a WAL with the create flag, no allocation failing.
IsWalCreate(r) ==
    /\ IsOpenCall(r)
    /\ {"SQLITE_OPEN_WAL", "SQLITE_OPEN_CREATE"} \subseteq r.args.flags

\* C8 (as claimed): the open of a WAL with the create flag while its
\* database is not registered fails with SQLITE_CANTOPEN and leaves the
\* registry unchanged, with no file of the WAL's name in it; when the
\* database is registered the same open succeeds.
C8_WalOpenCannotOpen ==
    [][IsWalCreate(ret') =>
        /\ ~InRegistry(vfs, MainFilename(ret'.args.filename)) =>
              /\ ret'.rc = "SQLITE_CANTOPEN"
              /\ vfs'.contents = vfs.contents
              /\ ~InRegistry(vfs', ret'.args.filename)
        /\ (/\ InRegistry(vfs, MainFilename(ret'.args.filename))
            /\ ~InRegistry(vfs, ret'.args.filename)) =>
              /\ ret'.rc = "SQLITE_OK"
              /\ InRegistry(vfs', ret'.args.filename)]_vars

\* C8 (amended): the open of a WAL with the create flag while neither the
\* WAL nor its database is registered fails with SQLITE_CORRUPT, sets
\* last-error to ENOMEM and leaves the registry and the handles unchanged;
\* when the database is registered the same open succeeds and registers
\* the WAL.
C8_WalOpenCorrupt ==
    [][IsWalCreate(ret') =>
        /\ (/\ ~InRegistry(vfs, MainFilename(ret'.args.filename))
            /\ ~InRegistry(vfs, ret'.args.filename)) =>
              /\ ret'.rc = "SQLITE_CORRUPT"
              /\ vfsGetLastError(vfs') = "ENOMEM"
              /\ vfs'.contents = vfs.contents
              /\ handles' = handles
        /\ (/\ InRegistry(vfs, MainFilename(ret'.args.filename))
            /\ ~InRegistry(vfs, ret'.args.filename)) =>
              /\ ret'.rc = "SQLITE_OK"
              /\ InRegistry(vfs', ret'.args.filename)
              /\ Named(vfs', ret'.args.filename).refcount = 1
              /\ Named(vfs', ret'.args.filename).type = "VFS__WAL"]_vars

\* C8 witness: the open of the WAL has just failed with SQLITE_CORRUPT, the
\* database and the WAL being both unregistered.
C8_Witness ==
    /\ IsWalCreate(ret)
    /\ ret.rc = "SQLITE_CORRUPT"
    /\ ~InRegistry(vfs, ret.args.filename)
    /\ ~InRegistry(vfs, MainFilename(ret.args.filename))

\* C9: an open fails with SQLITE_CANTOPEN when the name is not registered
\* and create is not set (last-error ENOENT), and when the name is
\* registered and exclusive and create are both set (last-error EEXIST);
\* in both cases the registry, every refcount and the handles are unchanged.
C9_OpenCannotOpen ==
    [][IsOpenCall(ret') =>
        /\ (/\ ~InRegistry(vfs, ret'.args.filename)
            /\ "SQLITE_OPEN_CREATE" \notin ret'.args.flags) =>
              /\ ret'.rc = "SQLITE_CANTOPEN"
              /\ vfsGetLastError(vfs') = "ENOENT"
              /\ vfs'.contents = vfs.contents
              /\ handles' = handles
        /\ (/\ InRegistry(vfs, ret'.args.filename)
            /\ {"SQLITE_OPEN_CREATE", "SQLITE_OPEN_EXCLUSIVE"} \subseteq ret'.args.flags) =>
              /\ ret'.rc = "SQLITE_CANTOPEN"
              /\ vfsGetLastError(vfs') = "EEXIST"
              /\ vfs'.contents = vfs.contents
              /\ handles' = handles]_vars

\* C9 witness: an exclusive create of a file that another handle holds open
\* has just failed with EEXIST.
C9_Witness ==
    /\ IsOpenCall(ret)
    /\ ret.rc = "SQLITE_CANTOPEN"
    /\ vfsGetLastError(vfs) = "EEXIST"
    /\ InRegistry(vfs, ret.args.filename)
    /\ Named(vfs, ret.args.filename).refcount = 1

\* C10: in every reachable state no two contents of the registry have the
\* same name.
C10_NamesUnique ==
    \A i, j \in 1 .. n_contents(vfs) :
        i # j => vfs.contents[i].filename # vfs.contents[j].filename

\* C10 witness: a file that was already open has just been opened again with
\* the create flag, next to another registered file.
C10_Witness ==
    /\ IsOpenCall(ret)
    /\ ret.rc = "SQLITE_OK"
    /\ "SQLITE_OPEN_CREATE" \in ret.args.flags
    /\ n_contents(vfs) = 2
    /\ Named(vfs, ret.args.filename).refcount = 2

(***************************************************************************)
(* Properties of the page store (SpecDb, SpecWal).                         *)
(***************************************************************************)
\* The files that hold pages: databases and WALs.
PagedFiles(v) ==
    {k \in 1 .. n_contents(v) : v.contents[k].type \in {"VFS__DATABASE", "VFS__WAL"}}

IsCall(r, op) == r.op = op /\ fault = "none"

\* C11 (as claimed): in every reachable state of a database or WAL file,
\* page_size = 0 if and only if the page vector is empty.
C11_PageSizeZeroIffEmpty ==
    \A k \in PagedFiles(vfs) :
        vfs.contents[k].page_size = 0 <=> n_pages(vfs.contents[k]) = 0

\* C11 (amended): in every reachable state of a database or WAL file, a
\* page_size of 0 implies an empty page vector (a file that has pages has a
\* positive page_size, and every page is page_size bytes long); an empty
\* page vector does not imply a page_size of 0.
C11_PagesImplyPageSize ==
    \A k \in PagedFiles(vfs) :
        /\ vfs.contents[k].page_size = 0 => n_pages(vfs.contents[k]) = 0
        /\ \A i \in 1 .. n_pages(vfs.contents[k]) :
              BLen(vfs.contents[k].pages[i].buf) = vfs.contents[k].page_size

\* C11 witness: a frame has just been written to a WAL, next to a database
\* that has a page size and no page.
C11_Witness ==
    /\ IsCall(ret, "vfsFileWrite")
    /\ ret.rc = "SQLITE_OK"
    /\ IsWal(ret.args.h)
    /\ n_pages(Content(ret.args.h)) > 0
    /\ InRegistry(vfs, "db")
    /\ n_pages(Named(vfs, "db")) = 0
    /\ Named(vfs, "db").page_size > 0

WalFiles(v) == {k \in 1 .. n_contents(v) : v.contents[k].type = "VFS__WAL"}

\* Every WAL whose page size is set has its database registered, with that
\* page size.
WalAgrees(v) ==
    \A k \in WalFiles(v) :
        v.contents[k].page_size # 0 =>
            /\ InRegistry(v, MainFilename(v.contents[k].filename))
            /\ Named(v, MainFilename(v.contents[k].filename)).page_size
                  = v.contents[k].page_size

\* No database registered before the step has left the registry.
NoDatabaseDeleted ==
    \A k \in 1 .. n_contents(vfs) :
        vfs.contents[k].type = "VFS__DATABASE" => InRegistry(vfs', vfs.contents[k].filename)

\* C12 (as claimed): in every reachable state in which a WAL's page_size is
\* set, it equals the page_size of the database currently registered under
\* the paired name.
C12_WalPageSizeIsDatabase ==
    \A k \in WalFiles(vfs) :
        (/\ vfs.contents[k].page_size # 0
         /\ InRegistry(vfs, MainFilename(vfs.contents[k].filename)))
        => Named(vfs, MainFilename(vfs.contents[k].filename)).page_size
              = vfs.contents[k].page_size

\* C12 (amended): a WAL's page_size, once set, equals the page_size of the
\* database registered under the paired name for as long as that database
\* is not deleted: every step that deletes no database keeps, or
\* establishes, the agreement of every WAL whose page_size is set.
C12_WalPageSizeFollowsDatabase ==
    [][(WalAgrees(vfs) /\ NoDatabaseDeleted) => WalAgrees(vfs')]_vars

\* C12 witness: a write has just set the page size of a WAL to the larger
\* page size, which is its database's.
C12_Witness ==
    /\ IsCall(ret, "vfsFileWrite")
    /\ ret.rc = "SQLITE_OK"
    /\ IsWal(ret.args.h)
    /\ Content(ret.args.h).page_size = 1024
    /\ Content(ret.args.h).hdr = WalHdr(IoImg(1024, TRUE))
    /\ n_pages(Content(ret.args.h)) = 0
    /\ WalAgrees(vfs)

\* The content the handle of the call r points to, in v.
Target(v, r) == Deref(v, handles[r.args.h].content)

\* A write to a WAL, or a read of a non-empty WAL, made while the WAL's
\* page_size is 0.
IsWalFirstUse(r) ==
    /\ r.op \in {"vfsFileWrite", "vfsFileRead"}
    /\ Target(vfs, r).type = "VFS__WAL"
    /\ Target(vfs, r).page_size = 0
    /\ r.op = "vfsFileRead" => n_pages(Target(vfs, r)) > 0

\* The name of the database of the WAL the call r is made on.
TargetMain(r) == MainFilename(Target(vfs, r).filename)

ValidPageSizes == {512, 1024, 2048, 4096, 8192, 16384, 32768, 65536}

IsPageSizePragma(r) ==
    /\ r.op = "vfsFileControl"
    /\ r.args.op = "SQLITE_FCNTL_PRAGMA"
    /\ r.args.arg.left = "page_size"
    /\ r.args.arg.right # <<>>

\* A write at offset 0 of a database that returned.
IsFirstPageWrite(r) ==
    /\ r.op = "vfsFileWrite"
    /\ r.args.offset = 0
    /\ Target(vfs, r).type = "VFS__DATABASE"
    /\ r.rc = "SQLITE_OK"
    /\ fault' = "none"

\* C14: the page size of a database is set by the first write at offset 0
\* or by a page_size pragma, and once set it is the same after every step
\* for as long as the file is registered.  A page_size pragma naming another
\* valid size returns SQLITE_IOERR and changes nothing; one naming an invalid
\* size changes nothing; with assertions compiled in, a write at offset 0
\* that returns carries the page size already set.
C14_PageSizeFixed ==
    [][/\ \A k \in 1 .. n_contents(vfs) :
             (/\ vfs.contents[k].type = "VFS__DATABASE"
              /\ vfs.contents[k].page_size # 0
              /\ InRegistry(vfs', vfs.contents[k].filename))
             => Named(vfs', vfs.contents[k].filename).page_size = vfs.contents[k].page_size
       /\ IsPageSizePragma(ret') =>
             /\ (/\ ret'.args.arg.right[1] \in ValidPageSizes
                 /\ Target(vfs, ret').page_size # 0
                 /\ ret'.args.arg.right[1] # Target(vfs, ret').page_size)
                => (ret'.rc = "SQLITE_IOERR" /\ vfs' = vfs)
             /\ ret'.args.arg.right[1] \notin ValidPageSizes
                => (ret'.rc = "SQLITE_NOTFOUND" /\ vfs' = vfs)
             /\ (/\ ret'.args.arg.right[1] \in ValidPageSizes
                 /\ Target(vfs, ret').page_size = 0)
                => Target(vfs', ret').page_size = ret'.args.arg.right[1]
       /\ IsFirstPageWrite(ret') =>
             /\ Target(vfs, ret').page_size = 0
                => Target(vfs', ret').page_size
                      = formatDatabaseGetPageSize(ret'.args.buf)
             /\ (Target(vfs, ret').page_size # 0 /\ ~ndebug)
                => formatDatabaseGetPageSize(ret'.args.buf) = Target(vfs, ret').page_size
      ]_vars

\* C14 witness: a page_size pragma naming another valid size has just
\* failed on a database whose page size was set by its first write.
C14_Witness ==
    /\ IsCall(ret, "vfsFileControl")
    /\ IsPageSizePragma(ret)
    /\ ret.rc = "SQLITE_IOERR"
    /\ n_pages(Content(ret.args.h)) > 0
    /\ Content(ret.args.h).page_size # ret.args.arg.right[1]

\* A well-formed write that has returned and whose target page lies more
\* than one past the end of the page vector: a database page write, or a
\* WAL frame-header write.
IsSkippingWrite(r) ==
    /\ r.op = "vfsFileWrite"
    /\ fault' = "none"
    /\ r.args.offset > 0
    /\ Target(vfs, r).page_size > 0
    /\ \/ /\ Target(vfs, r).type = "VFS__DATABASE"
          /\ r.args.amount = Target(vfs, r).page_size
          /\ r.args.offset % Target(vfs, r).page_size = 0
          /\ (r.args.offset \div Target(vfs, r).page_size) + 1 > n_pages(Target(vfs, r)) + 1
       \/ /\ Target(vfs, r).type = "VFS__WAL"
          /\ r.args.amount = FORMAT__WAL_FRAME_HDR_SIZE
          /\ (r.args.offset - FORMAT__WAL_HDR_SIZE)
                % (Target(vfs, r).page_size + FORMAT__WAL_FRAME_HDR_SIZE) = 0
          /\ ((r.args.offset - FORMAT__WAL_HDR_SIZE)
                \div (Target(vfs, r).page_size + FORMAT__WAL_FRAME_HDR_SIZE)) + 1
                > n_pages(Target(vfs, r)) + 1

\* C15: a write whose target page is more than one past the end of the page
\* vector returns SQLITE_IOERR_WRITE and leaves the page vector and the
\* pages as they were, for database page writes and for WAL frame-header
\* writes.
C15_SkipFailsWithWriteError ==
    [][IsSkippingWrite(ret') =>
          /\ ret'.rc = "SQLITE_IOERR_WRITE"
          /\ Target(vfs', ret').pages = Target(vfs, ret').pages]_vars

\* A call on the file vfs.contents[k] that returned SQLITE_OK.
IsOkCallOn(r, op, k) ==
    /\ r.op = op
    /\ r.rc = "SQLITE_OK"
    /\ fault' = "none"
    /\ handles[r.args.h].content = k

\* The page number a write addresses (0 for a WAL header write): the
\* computation of vfsFileWrite, with the page size the file has after it.
WrittenPgno(r) ==
    IF Target(vfs', r).type = "VFS__DATABASE"
    THEN IF r.args.offset = 0 THEN 1
         ELSE (r.args.offset \div Target(vfs', r).page_size) + 1
    ELSE IF r.args.offset = 0 THEN 0
    ELSE ((r.args.offset - FORMAT__WAL_HDR_SIZE)
             \div (Target(vfs', r).page_size + FORMAT__WAL_FRAME_HDR_SIZE)) + 1

LengthAfterWrite(c, pgno) == IF pgno > n_pages(c) THEN pgno ELSE n_pages(c)

PageSizeIsPowerOfTwo(v) ==
    \A k \in PagedFiles(v) :
        n_pages(v.contents[k]) > 0 => v.contents[k].page_size \in ValidPageSizes

ReadPage(v, name, pgno) ==
    vfsFileReadResult(v, [content |-> CHOOSE k \in Registered(v, name) : TRUE],
                      Named(v, name).page_size,
                      (pgno - 1) * Named(v, name).page_size)

\* A write of one whole page at a page boundary of the database
\* vfs.contents[k] that returned SQLITE_OK.
IsPageWriteOn(r, k) ==
    /\ IsOkCallOn(r, "vfsFileWrite", k)
    /\ vfs.contents[k].type = "VFS__DATABASE"
    /\ r.args.amount = vfs'.contents[k].page_size
    /\ r.args.offset % vfs'.contents[k].page_size = 0

\* C17: after a successful write of a whole page B to page p of a database,
\* a read of page p returns SQLITE_OK and B; and the bytes a read of page p
\* returns are the same after every step that is neither a successful write
\* to page p of that file nor a truncate of that file, for as long as the
\* file is registered: writes to other pages and to other files included.
C17_DatabaseRoundTrip ==
    [][\A k \in Databases(vfs) :
          /\ IsPageWriteOn(ret', k) =>
                ReadPage(vfs', vfs.contents[k].filename, WrittenPgno(ret'))
                   = IoResult(vfs', "SQLITE_OK", "none", ret'.args.buf)
          /\ \A pgno \in 1 .. n_pages(vfs.contents[k]) :
                (/\ InRegistry(vfs', vfs.contents[k].filename)
                 /\ ~(IsOkCallOn(ret', "vfsFileWrite", k) /\ WrittenPgno(ret') = pgno)
                 /\ ~IsOkCallOn(ret', "vfsFileTruncate", k))
                => ReadPage(vfs', vfs.contents[k].filename, pgno).out
                      = ReadPage(vfs, vfs.contents[k].filename, pgno).out
      ]_vars

\* C17 witness: the second page of a database has just been written, with
\* bytes that differ from those of its first page.
C17_Witness ==
    /\ IsCall(ret, "vfsFileWrite")
    /\ ret.rc = "SQLITE_OK"
    /\ ret.args.offset > 0
    /\ IsOpen(ret.args.h)
    /\ Content(ret.args.h).type = "VFS__DATABASE"
    /\ n_pages(Content(ret.args.h)) = 2
    /\ Content(ret.args.h).pages[2].buf = ret.args.buf
    /\ Content(ret.args.h).pages[1].buf # ret.args.buf

\* vfsFileRead of amount bytes at offset of the file vfs'.contents[k].
ReadAfter(k, amount, offset) ==
    vfsFileReadResult(vfs', [content |-> k], amount, offset)

ReadsAs(k, amount, offset, bytes) ==
    ReadAfter(k, amount, offset) = IoResult(vfs', "SQLITE_OK", "none", bytes)

\* A write to the WAL vfs.contents[k] that returned SQLITE_OK.
IsWalWriteOn(r, k, amount) ==
    /\ IsOkCallOn(r, "vfsFileWrite", k)
    /\ vfs.contents[k].type = "VFS__WAL"
    /\ r.args.offset > 0
    /\ r.args.amount = amount

\* C18: after a 24-byte frame header H has been written at the offset of
\* frame k of a WAL, a 24-byte read at that offset returns H and an 8-byte
\* read at that offset + 16 returns bytes [16,24) of H; after page_size
\* bytes B have then been written at that offset + 24, a read of
\* 24 + page_size bytes at the frame offset returns H followed by B, a
\* 24-byte read returns H, a page_size read at the offset + 24 returns B and
\* an 8-byte read at the offset + 16 returns bytes [16,24) of H.
C18_WalFrameRoundTrip ==
    [][\A k \in WalFiles(vfs) :
          /\ IsWalWriteOn(ret', k, FORMAT__WAL_FRAME_HDR_SIZE) =>
                /\ ReadsAs(k, FORMAT__WAL_FRAME_HDR_SIZE, ret'.args.offset, ret'.args.buf)
                /\ ReadsAs(k, 8, ret'.args.offset + 16, Bytes(ret'.args.buf, 16, 8))
          /\ IsWalWriteOn(ret', k, vfs'.contents[k].page_size) =>
                /\ ReadsAs(k, FORMAT__WAL_FRAME_HDR_SIZE + ret'.args.amount,
                           ret'.args.offset - FORMAT__WAL_FRAME_HDR_SIZE,
                           BCat(vfs.contents[k].pages[WrittenPgno(ret')].hdr, ret'.args.buf))
                /\ ReadsAs(k, FORMAT__WAL_FRAME_HDR_SIZE,
                           ret'.args.offset - FORMAT__WAL_FRAME_HDR_SIZE,
                           vfs.contents[k].pages[WrittenPgno(ret')].hdr)
                /\ ReadsAs(k, ret'.args.amount, ret'.args.offset, ret'.args.buf)
                /\ ReadsAs(k, 8, ret'.args.offset - FORMAT__WAL_FRAME_HDR_SIZE + 16,
                           Bytes(vfs.contents[k].pages[WrittenPgno(ret')].hdr, 16, 8))
      ]_vars

\* C18 witness: the body of a frame has just been written after its header.
C18_Witness ==
    /\ IsCall(ret, "vfsFileWrite")
    /\ ret.rc = "SQLITE_OK"
    /\ IsWal(ret.args.h)
    /\ ret.args.offset > 0
    /\ ret.args.amount = Content(ret.args.h).page_size
    /\ n_pages(Content(ret.args.h)) = 1
    /\ Content(ret.args.h).pages[1].hdr = IoFrameHdr(1)
    /\ Content(ret.args.h).pages[1].buf = ret.args.buf

\* The header of a WAL holds the bytes of a header write (vfsContentCreate
\* and vfsContentTruncate leave it zeroed).
HasWalHeader(c) == c.type = "VFS__WAL" /\ c.hdr # Zeros(FORMAT__WAL_HDR_SIZE)

\* C19: vfsFileSize returns SQLITE_OK and n_pages * page_size for a
\* database, 32 + n_pages * (24 + page_size) for a WAL whose header has been
\* written (32 when it has a header and no frame), and 0 for a journal and
\* for a file that has no header and no page.
C19_FileSize ==
    (IsCall(ret, "vfsFileSize") /\ IsOpen(ret.args.h)) =>
        /\ ret.rc = "SQLITE_OK"
        /\ Content(ret.args.h).type = "VFS__DATABASE"
              => ret.out = n_pages(Content(ret.args.h)) * Content(ret.args.h).page_size
        /\ HasWalHeader(Content(ret.args.h))
              => ret.out = FORMAT__WAL_HDR_SIZE
                       + n_pages(Content(ret.args.h))
                         * (FORMAT__WAL_FRAME_HDR_SIZE + Content(ret.args.h).page_size)
        /\ Content(ret.args.h).type = "VFS__JOURNAL" => ret.out = 0
        /\ (/\ n_pages(Content(ret.args.h)) = 0
            /\ ~HasWalHeader(Content(ret.args.h)))
              => ret.out = 0

\* vfsFileRead of amount bytes at offset of the file registered under a name.
ReadNamed(v, name, amount, offset) ==
    vfsFileReadResult(v, [content |-> CHOOSE k \in Registered(v, name) : TRUE],
                      amount, offset)

\* A write of the 32-byte header of the WAL vfs.contents[k] that returned
\* SQLITE_OK.
IsWalHeaderWriteOn(r, k) ==
    /\ IsOkCallOn(r, "vfsFileWrite", k)
    /\ vfs.contents[k].type = "VFS__WAL"
    /\ r.args.offset = 0
    /\ r.args.amount = FORMAT__WAL_HDR_SIZE

\* C20: after a successful 32-byte header write at offset 0 of a WAL, a
\* 32-byte read at offset 0 returns SQLITE_OK and the bytes written and an
\* 8-byte read at offset 24 returns their last eight bytes, whether or not a
\* frame has been written; and both reads return the same after every step
\* that is neither a header write nor a truncate of that WAL, for as long
\* as it is registered.
C20_WalHeaderRoundTrip ==
    [][\A k \in WalFiles(vfs) :
          /\ IsWalHeaderWriteOn(ret', k) =>
                /\ ReadsAs(k, FORMAT__WAL_HDR_SIZE, 0, ret'.args.buf)
                /\ ReadsAs(k, 8, 24, Bytes(ret'.args.buf, 24, 8))
          /\ (/\ HasWalHeader(vfs.contents[k])
              /\ InRegistry(vfs', vfs.contents[k].filename)
              /\ ~IsWalHeaderWriteOn(ret', k)
              /\ ~IsOkCallOn(ret', "vfsFileTruncate", k))
             => /\ ReadNamed(vfs', vfs.contents[k].filename, FORMAT__WAL_HDR_SIZE, 0).out
                      = vfs.contents[k].hdr
                /\ ReadNamed(vfs', vfs.contents[k].filename, 8, 24).out
                      = Bytes(vfs.contents[k].hdr, 24, 8)
      ]_vars

(***************************************************************************)
(* Properties of reads and truncates (SpecDb, SpecWal).                    *)
(***************************************************************************)
\* A vfsFileRead that returned, on a handle whose file has no page.
IsEmptyRead(r) ==
    /\ r.op = "vfsFileRead"
    /\ fault' = "none"
    /\ n_pages(Target(vfs, r)) = 0

\* C21: a read on a file that has no page fills the whole buffer with zeros
\* and returns SQLITE_IOERR_SHORT_READ, whatever the amount and the offset,
\* and changes nothing; and such a read always returns.
C21_EmptyReadIsShort ==
    [][/\ IsEmptyRead(ret') =>
             /\ ret'.rc = "SQLITE_IOERR_SHORT_READ"
             /\ ret'.out = Zeros(ret'.args.amount)
             /\ vfs' = vfs
             /\ handles' = handles
       /\ (ret'.op = "vfsFileRead" /\ n_pages(Target(vfs, ret')) = 0) => fault' = "none"
      ]_vars

\* C21 witness: a read at a positive offset of a database that has a page
\* size and no page has just returned.
C21_Witness ==
    /\ IsCall(ret, "vfsFileRead")
    /\ ret.args.offset > 0
    /\ IsDatabase(ret.args.h)
    /\ Content(ret.args.h).page_size > 0
    /\ n_pages(Content(ret.args.h)) = 0

\* C22: a read through a handle on a journal returns SQLITE_IOERR_READ, in
\* every state.
C22_JournalReadFails ==
    (/\ IsCall(ret, "vfsFileRead")
     /\ IsOpen(ret.args.h)
     /\ Content(ret.args.h).type = "VFS__JOURNAL")
    => ret.rc = "SQLITE_IOERR_READ"

\* Size of a frame of a WAL: the frame header and the page.
FrameSize(c) == c.page_size + FORMAT__WAL_FRAME_HDR_SIZE

\* Distance of a WAL read from the start of the frame it addresses: a frame
\* header or a whole frame, the checksums of a frame header, a page.
ReadSkew(c, amount) ==
    IF amount = FORMAT__WAL_FRAME_HDR_SIZE THEN 0
    ELSE IF amount = 8 THEN 16
    ELSE IF amount = c.page_size THEN FORMAT__WAL_FRAME_HDR_SIZE
    ELSE 0

\* A well-formed read past the last frame of a WAL that has frames.
IsWalReadPast(r) ==
    /\ r.op = "vfsFileRead"
    /\ Target(vfs, r).type = "VFS__WAL"
    /\ n_pages(Target(vfs, r)) > 0
    /\ Target(vfs, r).page_size > 0
    /\ r.args.amount \in {FORMAT__WAL_FRAME_HDR_SIZE, 8, Target(vfs, r).page_size,
                          FrameSize(Target(vfs, r))}
    /\ r.args.offset >= FORMAT__WAL_HDR_SIZE
    /\ (r.args.offset - FORMAT__WAL_HDR_SIZE - ReadSkew(Target(vfs, r), r.args.amount))
          % FrameSize(Target(vfs, r)) = 0
    /\ ((r.args.offset - FORMAT__WAL_HDR_SIZE - ReadSkew(Target(vfs, r), r.args.amount))
          \div FrameSize(Target(vfs, r))) + 1 > n_pages(Target(vfs, r))

\* C23: a read on a WAL that has frames, at an offset that decodes to a
\* frame number greater than the number of frames, returns: it fills the
\* buffer with zeros, returns SQLITE_IOERR_SHORT_READ and changes nothing.
C23_WalReadPastEndIsShort ==
    [][IsWalReadPast(ret') =>
          /\ fault' = "none"
          /\ ret'.rc = "SQLITE_IOERR_SHORT_READ"
          /\ ret'.out = Zeros(ret'.args.amount)
          /\ vfs' = vfs]_<<fault, vfs, handles, ndebug, ret>>

\* A vfsFileTruncate to a size other than 0 through a handle on a WAL.
IsWalTruncateNonZero(r) ==
    /\ r.op = "vfsFileTruncate"
    /\ r.args.size # 0
    /\ Target(vfs, r).type = "VFS__WAL"

\* C24: a truncate to a size other than 0 on a WAL returns SQLITE_PROTOCOL,
\* whether or not the WAL has frames, and leaves its header, its frames and
\* its size as they were.
C24_WalTruncateNonZeroIsProtocol ==
    [][IsWalTruncateNonZero(ret') =>
          /\ fault' = "none"
          /\ ret'.rc = "SQLITE_PROTOCOL"
          /\ vfs' = vfs]_vars

\* A vfsFileTruncate to size 0 through a handle on the file vfs.contents[k].
IsTruncateZeroOn(r, k) ==
    /\ r.op = "vfsFileTruncate"
    /\ r.args.size = 0
    /\ handles[r.args.h].content = k

\* The reads SQLite issues on a database or a WAL of either page size.
ReadShapes ==
    {<<FORMAT__WAL_HDR_SIZE, 0>>, <<FORMAT__DB_HDR_SIZE, 0>>, <<16, 24>>, <<8, 24>>}
    \cup {<<page_size, 0>> : page_size \in IoPageSizes}
    \cup {<<FORMAT__WAL_FRAME_HDR_SIZE, FrameOffset(page_size, 1)>> :
             page_size \in IoPageSizes}

\* Every read of the file vfs'.contents[k] is a zero-filled short read.
ReadsShortAfter(k) ==
    \A shape \in ReadShapes :
        ReadAfter(k, shape[1], shape[2])
           = IoResult(vfs', "SQLITE_IOERR_SHORT_READ", "none", Zeros(shape[1]))

\* C25: a truncate to size 0 on a WAL returns SQLITE_OK, drops every frame
\* and resets the 32-byte header to zeros; on a database it returns
\* SQLITE_OK and drops every page; in both cases vfsFileSize is 0 afterwards
\* and every read is a zero-filled short read, and this lasts until the
\* next write to the file.
C25_TruncateZeroDiscards ==
    [][\A k \in PagedFiles(vfs) :
          /\ IsTruncateZeroOn(ret', k) =>
                /\ fault' = "none"
                /\ ret'.rc = "SQLITE_OK"
                /\ n_pages(vfs'.contents[k]) = 0
                /\ vfs.contents[k].type = "VFS__WAL"
                      => vfs'.contents[k].hdr = Zeros(FORMAT__WAL_HDR_SIZE)
                /\ vfsFileSizeResult(vfs'.contents[k]) = 0
                /\ ReadsShortAfter(k)
          /\ (/\ n_pages(vfs.contents[k]) = 0
              /\ InRegistry(vfs', vfs.contents[k].filename)
              /\ ret'.op # "vfsFileWrite")
             => n_pages(Named(vfs', vfs.contents[k].filename)) = 0
      ]_vars

\* C26: truncate is idempotent: after every vfsFileTruncate that returned
\* SQLITE_OK, a second vfsFileTruncate to the same size through the same
\* handle returns SQLITE_OK and leaves every file as the first left it
\* (page count, pages, page size, and so the size).
C26_TruncateIdempotent ==
    [][(/\ ret'.op = "vfsFileTruncate"
        /\ ret'.rc = "SQLITE_OK"
        /\ fault' = "none")
       => /\ vfsFileTruncateResult(vfs', handles[ret'.args.h], ret'.args.size)
                = IoResult(vfs', "SQLITE_OK", "none", NULL)
          /\ vfsFileSizeResult(Target(vfs', ret'))
                = IF Target(vfs', ret').type = "VFS__DATABASE"
                  THEN ret'.args.size ELSE 0
      ]_vars

\* C26 witness: a truncate to one page has just succeeded on a database.
C26_Witness ==
    /\ IsCall(ret, "vfsFileTruncate")
    /\ ret.rc = "SQLITE_OK"
    /\ ret.args.size > 0
    /\ IsDatabase(ret.args.h)
    /\ n_pages(Content(ret.args.h)) = 1
    /\ ret.args.size = Content(ret.args.h).page_size

(***************************************************************************)
(* Properties of export and import (SpecImage).                            *)
(***************************************************************************)
\* The pages of a file from page pgno on, each after its frame header.
RECURSIVE PagesFrom(_, _)
PagesFrom(c, pgno) ==
    IF pgno > n_pages(c) THEN <<>>
    ELSE BCat(BCat(c.pages[pgno].hdr, c.pages[pgno].buf), PagesFrom(c, pgno + 1))

\* The bytes of a file: the WAL header, then the frames or the pages.
Layout(c) == BCat(IF c.type = "VFS__WAL" THEN c.hdr ELSE <<>>, PagesFrom(c, 1))

\* VfsFileRead returned SQLITE_OK (and the bytes e.buf).
Exported(e) == e.fault = "none" /\ e.rc = "SQLITE_OK"

\* Import of the bytes that VfsFileRead of the file returned (e).
Reimport(e, name) == VfsFileWriteResult(e.v, name, e.buf, BLen(e.buf))

\* C27: for every database or WAL that has pages and whose export succeeds,
\* the bytes exported are as long as the file size and are its header
\* followed by its frames or pages in order, the import of those bytes
\* under the same name succeeds, and the export that follows returns the
\* same bytes.
C27_ExportImportRoundTrip ==
    \A k \in PagedFiles(vfs) :
        (/\ n_pages(vfs.contents[k]) > 0
         /\ Exported(VfsFileReadResult(vfs, vfs.contents[k].filename)))
        => /\ BLen(VfsFileReadResult(vfs, vfs.contents[k].filename).buf)
                 = vfsFileSizeResult(vfs.contents[k])
           /\ VfsFileReadResult(vfs, vfs.contents[k].filename).buf = Layout(vfs.contents[k])
           /\ Exported(Reimport(VfsFileReadResult(vfs, vfs.contents[k].filename),
                                vfs.contents[k].filename))
           /\ VfsFileReadResult(
                  Reimport(VfsFileReadResult(vfs, vfs.contents[k].filename),
                           vfs.contents[k].filename).v,
                  vfs.contents[k].filename)
              = [VfsFileReadResult(vfs, vfs.contents[k].filename)
                   EXCEPT !.v = Reimport(VfsFileReadResult(vfs, vfs.contents[k].filename),
                                         vfs.contents[k].filename).v]

\* A VfsFileWrite of a well-formed image; when the file is a WAL, its
\* database is registered and has the page size of the image.
IsImport(r) ==
    /\ r.op = "VfsFileWrite"
    /\ r.args.img.ok
    /\ r.args.img.type = "FORMAT__WAL" =>
          /\ InRegistry(vfs, MainFilename(r.args.filename))
          /\ Named(vfs, MainFilename(r.args.filename)).page_size = r.args.img.page_size

\* C28: an import replaces any prior content: whatever the prior state of
\* the named file (absent, empty, or holding pages of either page size), the
\* import of a well-formed image returns SQLITE_OK, and the export of the
\* file that follows returns SQLITE_OK and exactly the bytes imported, the
\* file holding the pages of the image and no other.
C28_ImportReplaces ==
    [][IsImport(ret') =>
          /\ fault' = "none"
          /\ ret'.rc = "SQLITE_OK"
          /\ Exported(VfsFileReadResult(vfs', ret'.args.filename))
          /\ VfsFileReadResult(vfs', ret'.args.filename).buf = ImageBytes(ret'.args.img)
          /\ n_pages(Named(vfs', ret'.args.filename)) = ret'.args.img.n
      ]_<<fault, vfs, handles, ndebug, ret>>

(***************************************************************************)
(* Properties of the WAL header write (SpecWal).                           *)
(***************************************************************************)
\* A write of 32 bytes at offset 0 through a handle on a WAL.
IsWalHeaderWrite(r) ==
    /\ r.op = "vfsFileWrite"
    /\ Target(vfs, r).type = "VFS__WAL"
    /\ r.args.offset = 0
    /\ r.args.amount = FORMAT__WAL_HDR_SIZE

\* The header and the frames of the WAL written are as they were.
WalKept(r) ==
    /\ Target(vfs', r).hdr = Target(vfs, r).hdr
    /\ Target(vfs', r).pages = Target(vfs, r).pages

NewRegions == {[size |-> region_size] : region_size \in RegionSizes}

\* No database's region count goes down in the step, unless it goes to zero
\* as the refcount of the database goes to zero.
RegionCountKept ==
    \A k \in Databases(vfs) \cap Databases(vfs') :
        \/ regions_len(vfs'.contents[k].shm) >= regions_len(vfs.contents[k].shm)
        \/ /\ regions_len(vfs'.contents[k].shm) = 0
           /\ vfs.contents[k].refcount > 0
           /\ vfs'.contents[k].refcount = 0

\* C30: vfsFileShmMap without extend on an index that is not allocated
\* returns SQLITE_OK with no region and changes nothing; with extend on the
\* index equal to the region count it returns a new zeroed region, which is
\* appended to the table, alone; on an allocated index it returns the region
\* stored there and changes nothing, so every call returns the same region;
\* vfsFileShmUnmap changes nothing; and the region count of a database never
\* decreases except to zero when its refcount reaches zero.
C30_RegionTable ==
    [][/\ ret'.op = "vfsFileShmMap" =>
            /\ ret'.args.region_index < regions_len(ShmBefore) =>
                  /\ fault' = "none"
                  /\ vfs' = vfs
                  /\ ret'.rc = "SQLITE_OK"
                  /\ ret'.out = ShmBefore.regions[ret'.args.region_index + 1]
            /\ (ret'.args.region_index >= regions_len(ShmBefore) /\ ~ret'.args.extend) =>
                  /\ fault' = "none"
                  /\ vfs' = vfs
                  /\ ret'.rc = "SQLITE_OK"
                  /\ ret'.out = NULL
            /\ (ret'.args.region_index = regions_len(ShmBefore) /\ ret'.args.extend) =>
                  /\ fault' = "none"
                  /\ ret'.rc = "SQLITE_OK"
                  /\ ret'.out \in NewRegions
                  /\ ShmAfter = [ShmBefore EXCEPT !.regions = Append(@, ret'.out)]
       /\ ret'.op = "vfsFileShmUnmap" =>
            /\ fault' = "none"
            /\ vfs' = vfs
            /\ handles' = handles
            /\ ret'.rc = "SQLITE_OK"
       /\ RegionCountKept
      ]_<<fault, vfs, handles, ndebug, ret>>

\* C30 witness: a map of region 0 without extend has just returned the
\* region that an earlier call with extend allocated, while a second handle
\* is open on the database.
C30_Witness ==
    /\ IsCall(ret, "vfsFileShmMap")
    /\ ret.rc = "SQLITE_OK"
    /\ ret.args.region_index = 0
    /\ ~ret.args.extend
    /\ Content(ret.args.h).refcount = 2
    /\ Content(ret.args.h).shm.regions \in {<<region>> : region \in NewRegions}
    /\ ret.out = Content(ret.args.h).shm.regions[1]

(***************************************************************************)
(* Properties of the locks of several handles (SpecShm).                   *)
(***************************************************************************)
IsShmUnlockCall(r) ==
    /\ r.op = "vfsFileShmLock"
    /\ "SQLITE_SHM_UNLOCK" \in r.args.flags

\* The counts of the kind the call names, and those of the other kind.
TheseLocks(s, r) == IF "SQLITE_SHM_SHARED" \in r.args.flags THEN s.shared ELSE s.exclusive
OtherLocks(s, r) == IF "SQLITE_SHM_SHARED" \in r.args.flags THEN s.exclusive ELSE s.shared

\* Every count of the kind released is zero on the range of the call.
NoneToRelease(s, r) ==
    \A i \in LockRange(r.args.ofst, r.args.n) : TheseLocks(s, r)[i] = 0

CountersNotNegative(v) ==
    \A k \in 1 .. n_contents(v) :
        v.contents[k].type = "VFS__DATABASE" =>
            \A i \in Slots : /\ v.contents[k].shm.shared[i] >= 0
                             /\ v.contents[k].shm.exclusive[i] >= 0

LiveItems(its) == {a \in Addrs : its[a] # NotAllocated}
LiveIds(r) == {i \in 0 .. (r.len - 1) : r.buf[i + 1] # NULL}

\* The least ID that is not in use.
LeastFreeId(r) == CHOOSE i \in 0 .. r.len : i \notin LiveIds(r) /\ \A j \in 0 .. (i - 1) : j \in LiveIds(r)

\* C32: the IDs of the live items are pairwise distinct and each item is
\* registered under its ID; an add gives the new item the least ID that is
\* not in use (0 first, the ID of a deleted item before any new one); get
\* returns the item of a live ID and nothing for a deleted or out-of-range
\* ID; del of an item whose ID is not live returns DQLITE_NOTFOUND and
\* changes nothing.
C32_RegistryIds ==
    [][/\ \A a, b \in LiveItems(items') : a # b => items'[a] # items'[b]
       /\ \A a \in LiveItems(items') : test_registry_get(registry', items'[a]) = a
       /\ ret'.op = "test_registry_add" =>
             /\ ret'.rc = "SQLITE_OK"
             /\ items'[ret'.out] = LeastFreeId(registry)
             /\ LiveIds(registry') = LiveIds(registry) \cup {LeastFreeId(registry)}
       /\ ret'.op = "test_registry_get" =>
             IF ret'.args.id \in LiveIds(registry)
             THEN ret'.out # NULL /\ items[ret'.out] = ret'.args.id
             ELSE ret'.out = NULL
       /\ (ret'.op = "test_registry_del" /\ ret'.args.id \notin LiveIds(registry)) =>
             /\ ret'.rc = "DQLITE_NOTFOUND"
             /\ registry' = registry
             /\ items' = items
      ]_<<registry, items, ret.op, ret.args, ret.rc>>

\* C32 witness: three items are live and the last add gave its item the
\* ID 1, that of an item deleted before.
C32_Witness ==
    /\ ret.op = "test_registry_add"
    /\ items[ret.out] = 1
    /\ LiveIds(registry) = {0, 1, 2}

(***************************************************************************)
(* Properties of the locks of several callers (SpecLock).                  *)
(***************************************************************************)
IsShmAcquired(r) ==
    /\ r.op = "vfsFileShmLock"
    /\ "SQLITE_SHM_LOCK" \in r.args.flags
    /\ r.rc = "SQLITE_OK"

\* C33: when callers release only the locks they took, no acquire over a
\* slot succeeds while the caller of another handle holds the exclusive
\* lock of the slot, and no exclusive acquire over a slot succeeds while any
\* caller holds a shared lock of it.
C33_MutualExclusion ==
    [][IsShmAcquired(ret') =>
          \A i \in LockRange(ret'.args.ofst, ret'.args.n) :
             /\ \A h \in ShmHandles \ {ret'.args.h} : i \notin held[h].exclusive
             /\ "SQLITE_SHM_EXCLUSIVE" \in ret'.args.flags =>
                   \A h \in ShmHandles : i \notin held[h].shared
      ]_<<held, vfs, ret.op, ret.args, ret.rc, fault>>

\* C33 witness: the acquire of slot 0 through handle 2 has just been refused
\* while the caller of handle 1 holds the exclusive lock of slot 0 and a
\* shared lock of slot 1.
C33_Witness ==
    /\ IsCall(ret, "vfsFileShmLock")
    /\ "SQLITE_SHM_LOCK" \in ret.args.flags
    /\ ret.args.h = 2
    /\ ret.args.ofst = 0
    /\ ret.rc = "SQLITE_BUSY"
    /\ held[1] = [shared |-> {1}, exclusive |-> {0}]

\* C34: a release of slot i through a handle whose caller holds no lock of
\* slot i lowers no counter of slot i, and the close of a handle that leaves
\* other handles open on the database changes no lock counter and no region.
C34_LockStaysHeld ==
    [][/\ (ret'.op = "vfsFileShmLock" /\ "SQLITE_SHM_UNLOCK" \in ret'.args.flags) =>
            \A i \in LockRange(ret'.args.ofst, ret'.args.n) :
               i \notin (held[ret'.args.h].shared \cup held[ret'.args.h].exclusive) =>
                  /\ ShmAfter.shared[i] >= ShmBefore.shared[i]
                  /\ ShmAfter.exclusive[i] >= ShmBefore.exclusive[i]
       /\ (ret'.op = "vfsFileClose"
             /\ Deref(vfs', handles[ret'.args.h].content).refcount > 0) =>
            ShmAfter = ShmBefore
      ]_<<held, vfs, ret.op, ret.args, ret.rc, fault>>

(***************************************************************************)
(* Properties of the close with delete-on-close (SpecReg).                 *)
(***************************************************************************)
\* C35: the close of a handle opened with delete-on-close, while other
\* handles are open on the file, returns SQLITE_IOERR_DELETE with last error
\* EBUSY and leaves the file registered, one reference less and otherwise
\* as it was; and the close of a handle opened without delete-on-close never
\* removes the file, whatever was closed before.
C35_DeleteOnCloseBusy ==
    [][ret'.op = "vfsFileClose" =>
          /\ ("SQLITE_OPEN_DELETEONCLOSE" \in ret'.args.flags
                /\ LiveHandlesOn(vfs, handles, ret'.args.filename) > 1) =>
                /\ fault' = "none"
                /\ InRegistry(vfs', ret'.args.filename)
                /\ Named(vfs', ret'.args.filename) =
                      [Named(vfs, ret'.args.filename) EXCEPT !.refcount = @ - 1]
                /\ ret'.rc = "SQLITE_IOERR_DELETE"
                /\ vfsGetLastError(vfs') = "EBUSY"
          /\ ("SQLITE_OPEN_DELETEONCLOSE" \notin ret'.args.flags /\ fault' = "none") =>
                /\ InRegistry(vfs', ret'.args.filename)
                /\ ret'.rc = "SQLITE_OK"
      ]_<<fault, vfs, handles, ndebug, ret>>

\* C35 witness: the close of a handle opened with delete-on-close has just
\* returned SQLITE_IOERR_DELETE and the file, which holds a page, is
\* registered with the one reference of the other handle.
C35_Witness ==
    /\ IsCall(ret, "vfsFileClose")
    /\ ret.rc = "SQLITE_IOERR_DELETE"
    /\ "SQLITE_OPEN_DELETEONCLOSE" \in ret.args.flags
    /\ vfsGetLastError(vfs) = "EBUSY"
    /\ InRegistry(vfs, ret.args.filename)
    /\ Named(vfs, ret.args.filename).refcount = 1
    /\ n_pages(Named(vfs, ret.args.filename)) > 0

(***************************************************************************)
(* Properties of the gateway (SpecGateway).                                *)
(***************************************************************************)
IsHandle(r) == r.op = "gateway__handle"
IsFlushed(r) == r.op = "gateway__flushed"

\* The slot a request type is served in.
SlotOf(type) == IF type \in ControlRequests THEN 1 ELSE 0

\* C36: gateway__handle accepts a database request exactly when neither
\* slot holds a request, into slot 0, and a heartbeat or interrupt request
\* exactly when slot 1 holds none, into slot 1, whatever slot 0 holds; a
\* request that is not accepted is answered DQLITE_PROTO and both slots stay
\* as they were; so slot 0 only ever holds a database request and slot 1 a
\* control request, one each at most.
C36_RequestSlots ==
    [][/\ IsHandle(ret') =>
            LET type == ret'.args.type
                free == IF type \in ControlRequests
                        THEN gateway.ctxs[1].request = NIL
                        ELSE gateway.ctxs[0].request = NIL /\ gateway.ctxs[1].request = NIL
            IN IF free
               THEN /\ ret'.rc = "SQLITE_OK"
                    /\ ret'.out = SlotOf(type)
                    /\ flushing'[SlotOf(type)] = Append(flushing[SlotOf(type)], ret'.args.tag)
               ELSE /\ ret'.rc = "DQLITE_PROTO"
                    /\ gateway'.ctxs = gateway.ctxs
                    /\ flushing' = flushing
       /\ \A i \in GatewaySlots :
             gateway'.ctxs[i].request # NIL => SlotOf(Request(gateway', i).type) = i
      ]_<<gateway, flushing, ret.op, ret.args, ret.rc, fault>>

\* C36 witness: a heartbeat has just been accepted while the database
\* request of slot 0, a query with a batch being flushed, is in progress.
C36_Witness ==
    /\ IsHandle(ret)
    /\ ret.rc = "SQLITE_OK"
    /\ ret.args.type = "DQLITE_REQUEST_HEARTBEAT"
    /\ gateway.ctxs[1].request = <<ret.args>>
    /\ gateway.ctxs[0].request # NIL
    /\ gateway.ctxs[0].stmt # NIL

\* C37: a request is accepted only into a slot none of whose responses is
\* still being flushed, and each gateway__flushed call finds in its slot the
\* request whose response was flushed and either releases it or resumes it
\* with its next batch.
C37_FlushNotOverwritten ==
    [][/\ (IsHandle(ret') /\ ret'.rc = "SQLITE_OK") => flushing[ret'.out] = <<>>
       /\ IsFlushed(ret') =>
            LET i == ret'.args.slot IN
            /\ fault' = "none"
            /\ gateway.ctxs[i].request # NIL
            /\ Request(gateway, i).tag = ret'.args.tag
            /\ \/ gateway'.ctxs[i].request = NIL
               \/ /\ gateway'.ctxs[i].request = gateway.ctxs[i].request
                  /\ gateway.ctxs[i].stmt # NIL
                  /\ flushing'[i] = Append(Tail(flushing[i]), ret'.args.tag)
      ]_<<gateway, flushing, fault, ret.op>>

QueryRequests == {"DQLITE_REQUEST_QUERY", "DQLITE_REQUEST_QUERY_SQL"}

\* The step has run gateway__query_batch for slot 0: a query was accepted
\* and its statement bound, or a flushed notification resumed one.
IsQueryBatch ==
    \/ /\ IsHandle(ret') /\ ret'.rc = "SQLITE_OK" /\ ret'.args.type \in QueryRequests
       /\ gateway'.ctxs[0].response.type = "DQLITE_RESPONSE_ROWS"
    \/ /\ IsFlushed(ret') /\ ret'.args.slot = 0 /\ fault' = "none"
       /\ gateway.ctxs[0].stmt # NIL

\* A batch that is not the last: the response is marked PART and the slot
\* keeps its request, database and statement.
BatchKeepsSlot ==
    (IsQueryBatch /\ gateway'.ctxs[0].response.eof = "PART") =>
        /\ gateway'.ctxs[0].request # NIL
        /\ gateway'.ctxs[0].db # NIL
        /\ gateway'.ctxs[0].stmt # NIL
        /\ gateway'.db[1].stmts[gateway'.ctxs[0].stmt[1]] > 0

\* A flushed notification for a slot that kept its statement produces and
\* flushes the next batch.
FlushedResumes ==
    (IsFlushed(ret') /\ ret'.args.slot = 0 /\ fault' = "none" /\ gateway.ctxs[0].stmt # NIL) =>
        /\ gateway'.ctxs[0].request = gateway.ctxs[0].request
        /\ gateway'.ctxs[0].response.type
              \in {"DQLITE_RESPONSE_ROWS", "DQLITE_RESPONSE_FAILURE"}
        /\ flushing'[0] = Append(Tail(flushing[0]), Request(gateway, 0).tag)
        /\ gateway'.db[1].stmts[gateway.ctxs[0].stmt[1]]
              < gateway.db[1].stmts[gateway.ctxs[0].stmt[1]]

\* The request of a query leaves slot 0 only in a flushed notification for
\* a response that is the final batch or a failure.
ReleasedByFlushed ==
    (/\ gateway.ctxs[0].request # NIL
     /\ gateway'.ctxs[0].request = NIL
     /\ Request(gateway, 0).type \in QueryRequests) =>
        /\ IsFlushed(ret') /\ ret'.args.slot = 0
        /\ gateway.ctxs[0].stmt = NIL
        /\ \/ gateway.ctxs[0].response.type = "DQLITE_RESPONSE_FAILURE"
           \/ /\ gateway.ctxs[0].response.type = "DQLITE_RESPONSE_ROWS"
              /\ gateway.ctxs[0].response.eof = "DONE"

\* The final batch or the failure of a resumed query finalizes the statement
\* exactly when the cleanup code is FINALIZE, and the slot lets go of it.
FinalizedPerCleanup ==
    (/\ IsFlushed(ret') /\ ret'.args.slot = 0 /\ fault' = "none"
     /\ gateway.ctxs[0].stmt # NIL
     /\ gateway'.ctxs[0].response.eof # "PART") =>
        /\ gateway'.ctxs[0].stmt = NIL
        /\ gateway'.ctxs[0].cleanup = "GATEWAY__CLEANUP_NONE"
        /\ (gateway'.db[1].stmts[gateway.ctxs[0].stmt[1]] = NoStmt)
              <=> (gateway.ctxs[0].cleanup = "GATEWAY__CLEANUP_FINALIZE")

\* C38: a batch that is not the last is marked PART and keeps the request,
\* database and statement in the slot; each flushed notification of the slot
\* then steps the statement, which has one batch less to yield each time, and
\* flushes the next batch; the final batch or a failure finalizes the
\* statement exactly when the cleanup code is FINALIZE; and the request
\* leaves the slot only in the flushed notification that follows the final
\* batch or the failure.
C38_MultiBatchQuery ==
    [][/\ BatchKeepsSlot
       /\ FlushedResumes
       /\ FinalizedPerCleanup
       /\ ReleasedByFlushed
      ]_<<gateway, flushing, fault, ret.op>>

(***************************************************************************)
(* SpecCkpt: the shared memory of one database, locked and mapped through  *)
(* several handles, with the WAL hook running after commits.               *)
(***************************************************************************)
MaybeCheckpoint == \E h \in ShmHandles, pages \in 0 .. MaxWalPages, threshold \in 1 .. MaxWalPages :
    maybe_checkpoint(h, pages, threshold)

NextCkpt == OpenDb \/ Close \/ ShmLock \/ ShmMap \/ MaybeCheckpoint

SpecCkpt == Init /\ [][NextCkpt]_vars

IsMaybeCheckpoint(r) == r.op = "maybe_checkpoint"

\* No slot of the shared memory s is locked.
NoSlotLocked(s) == \A i \in Slots : s.shared[i] = 0 /\ s.exclusive[i] = 0

\* C39: maybe_checkpoint invokes the cluster checkpoint exactly when the
\* page count has reached the threshold and no lock slot of the database is
\* held, shared or exclusive; it returns SQLITE_OK either way, and the file
\* system, the lock counters of every slot included, is after the call as it
\* was before.
C39_CheckpointWhenUnlocked ==
    [][(IsMaybeCheckpoint(ret') /\ fault' = "none") =>
          /\ vfs' = vfs
          /\ ret'.rc = "SQLITE_OK"
          /\ (ret'.out = "xCheckpoint") <=>
                /\ ret'.args.pages >= ret'.args.threshold
                /\ NoSlotLocked(Content(ret'.args.h).shm)
      ]_<<vfs, fault, ret.op, ret.rc, ret.args>>

\* C39 witness: the page count has reached the threshold, the probe of
\* slot 0 succeeded and was released, the probe of slot 1 found it locked,
\* and the checkpoint was postponed.
C39_Witness ==
    /\ IsMaybeCheckpoint(ret)
    /\ fault = "none"
    /\ ret.args.pages >= ret.args.threshold
    /\ ret.out = "none"
    /\ Content(ret.args.h).shm.shared[0] = 0
    /\ Content(ret.args.h).shm.exclusive[0] = 0
    /\ Content(ret.args.h).shm.shared[1] > 0

(***************************************************************************)
(* SpecReplay: Replay on every pair of stores, with every call failing.    *)
(***************************************************************************)
ReplayStores == \E logs \in LogStores, metas \in SnapshotStores :
    \E fail \in ReplayFails, failAt \in LogIndexes : ReplayCall(logs, metas, fail, failAt)

NextReplay == ReplayStores

SpecReplay == Init /\ [][NextReplay]_vars

IsReplay(r) == r.op = "Replay"

\* The indexes of the entries of the store logs after index, in order.
RECURSIVE EntriesAfter(_, _)
EntriesAfter(logs, index) ==
    IF logs.last <= index \/ logs.last < logs.first THEN <<>>
    ELSE Append(EntriesAfter([logs EXCEPT !.last = @ - 1], index), logs.last)

\* A call made by Replay on these arguments returns an error.
ReplayFailed(a) ==
    \/ a.fail \in {"DefaultRange", "List"}
    \/ a.fail \in {"Open", "Restore"} /\ a.metas # <<>>
    \/ /\ a.fail = "Iterate"
       /\ \E k \in 1 .. Len(EntriesAfter(a.logs, IF a.metas = <<>> THEN 0 ELSE a.metas[1])) :
             EntriesAfter(a.logs, IF a.metas = <<>> THEN 0 ELSE a.metas[1])[k] = a.failAt

\* C40: Replay returns an error whenever computing the range, listing,
\* opening or restoring the snapshot, or iterating through the logs fails;
\* otherwise it has restored the most recent snapshot, if there is one, and
\* applied exactly the entries stored after the snapshot's index, all the
\* entries stored when there is no snapshot.
C40_ReplayRestoresAndApplies ==
    IsReplay(ret) =>
       IF ReplayFailed(ret.args) THEN ret.rc # "nil"
       ELSE /\ ret.rc = "nil"
            /\ ret.out.restored =
                  IF ret.args.metas = <<>> THEN <<>> ELSE <<ret.args.metas[1]>>
            /\ ret.out.applied =
                  EntriesAfter(ret.args.logs,
                               IF ret.args.metas = <<>> THEN 0 ELSE ret.args.metas[1])

====
